---- MODULE Spec2Model ----
(***************************************************************************)
(* Play resolution of the american-football engine: the mapping layer,     *)
(* the yardage bands, the clock runoff, the down/distance/possession/score *)
(* state machine of GameState and the resolver resolve_play.               *)
(*                                                                         *)
(* Identifiers (enum member names) are sequences of one-character strings  *)
(* so that the keyword rules of the mapping layer are real substring       *)
(* tests.  Canonical families and sides are strings.                       *)
(***************************************************************************)
EXTENDS Integers, Sequences, FiniteSets, TLC

VARIABLES state, prev, call, result, draws, plays, probe, heap

vars == <<state, prev, call, result, draws, plays, probe, heap>>

----------------------------------------------------------------------------
\* Small arithmetic helpers (Python's built-in max / min).
max(a, b) == IF a >= b THEN a ELSE b

min(a, b) == IF a <= b THEN a ELSE b

\* class Side
Side == {"HOME", "AWAY"}

\* class OffensePlayType: each member is its .name
OffensePlayType ==
  [ INSIDE_ZONE |-> <<"I","N","S","I","D","E","_","Z","O","N","E">>,
      OUTSIDE_ZONE |-> <<"O","U","T","S","I","D","E","_","Z","O","N","E">>,
      POWER |-> <<"P","O","W","E","R">>,
      COUNTER |-> <<"C","O","U","N","T","E","R">>,
      TRAP |-> <<"T","R","A","P">>,
      ISO |-> <<"I","S","O">>,
      SWEEP |-> <<"S","W","E","E","P">>,
      TOSS |-> <<"T","O","S","S">>,
      DRAW |-> <<"D","R","A","W">>,
      DELAY |-> <<"D","E","L","A","Y">>,
      QB_SNEAK |-> <<"Q","B","_","S","N","E","A","K">>,
      QB_KEEPER |-> <<"Q","B","_","K","E","E","P","E","R">>,
      READ_OPTION |-> <<"R","E","A","D","_","O","P","T","I","O","N">>,
      SPEED_OPTION |-> <<"S","P","E","E","D","_","O","P","T","I","O","N">>,
      JET_SWEEP |-> <<"J","E","T","_","S","W","E","E","P">>,
      REVERSE |-> <<"R","E","V","E","R","S","E">>,
      QUICK_SLANT |-> <<"Q","U","I","C","K","_","S","L","A","N","T">>,
      QUICK_OUT |-> <<"Q","U","I","C","K","_","O","U","T">>,
      QUICK_HITCH |-> <<"Q","U","I","C","K","_","H","I","T","C","H">>,
      BUBBLE_SCREEN |-> <<"B","U","B","B","L","E","_","S","C","R","E","E","N">>,
      SMOKE_SCREEN |-> <<"S","M","O","K","E","_","S","C","R","E","E","N">>,
      RB_SCREEN |-> <<"R","B","_","S","C","R","E","E","N">>,
      TE_SCREEN |-> <<"T","E","_","S","C","R","E","E","N">>,
      DIG |-> <<"D","I","G">>,
      COMEBACK |-> <<"C","O","M","E","B","A","C","K">>,
      DEEP_OUT |-> <<"D","E","E","P","_","O","U","T">>,
      CROSSERS |-> <<"C","R","O","S","S","E","R","S">>,
      MESH |-> <<"M","E","S","H">>,
      SEAM |-> <<"S","E","A","M">>,
      GO |-> <<"G","O">>,
      POST |-> <<"P","O","S","T">>,
      CORNER |-> <<"C","O","R","N","E","R">>,
      FADE |-> <<"F","A","D","E">>,
      DEEP_CROSS |-> <<"D","E","E","P","_","C","R","O","S","S">>,
      PLAY_ACTION_SHORT |-> <<"P","L","A","Y","_","A","C","T","I","O","N","_","S","H","O","R","T">>,
      PLAY_ACTION_SHOT |-> <<"P","L","A","Y","_","A","C","T","I","O","N","_","S","H","O","T">>,
      BOOTLEG |-> <<"B","O","O","T","L","E","G">>,
      ROLL_OUT |-> <<"R","O","L","L","_","O","U","T">>,
      SPIKE |-> <<"S","P","I","K","E">>,
      KNEEL |-> <<"K","N","E","E","L">> ]

\* class DefensePlayFlavor: each member is its .name
DefensePlayFlavor ==
  [ BASE |-> <<"B","A","S","E">>,
      RUN_FOCUS |-> <<"R","U","N","_","F","O","C","U","S">>,
      RUN_BLITZ |-> <<"R","U","N","_","B","L","I","T","Z">>,
      GOAL_LINE_SOLD_OUT |-> <<"G","O","A","L","_","L","I","N","E","_","S","O","L","D","_","O","U","T">>,
      PASS_FOCUS |-> <<"P","A","S","S","_","F","O","C","U","S">>,
      PASS_BLITZ |-> <<"P","A","S","S","_","B","L","I","T","Z">>,
      ALL_OUT_BLITZ |-> <<"A","L","L","_","O","U","T","_","B","L","I","T","Z">>,
      PREVENT |-> <<"P","R","E","V","E","N","T">>,
      CONTAIN |-> <<"C","O","N","T","A","I","N">>,
      QB_SPY |-> <<"Q","B","_","S","P","Y">> ]

OffensePlayTypes == {OffensePlayType[k] : k \in DOMAIN OffensePlayType}

DefensePlayFlavors == {DefensePlayFlavor[k] : k \in DOMAIN DefensePlayFlavor}

\* class CoreOffenseFamily (engine.py)
CoreOffenseFamily ==
  {"INSIDE_RUN", "OUTSIDE_RUN", "OPTION_RUN", "QUICK_PASS", "SHORT_PASS",
   "INTERMEDIATE_PASS", "DEEP_PASS", "SCREEN_PASS", "PLAY_ACTION", "SPIKE", "KNEEL"}

\* class CoreDefenseFamily (engine.py)
CoreDefenseFamily ==
  {"BASE", "RUN_FOCUS", "RUN_BLITZ", "PASS_FOCUS", "PASS_BLITZ", "ALL_OUT_BLITZ",
   "PREVENT", "CONTAIN", "QB_SPY"}

----------------------------------------------------------------------------
\* Mapping layer.

LowerLetters == <<"a","b","c","d","e","f","g","h","i","j","k","l","m",
                  "n","o","p","q","r","s","t","u","v","w","x","y","z">>

UpperLetters == <<"A","B","C","D","E","F","G","H","I","J","K","L","M",
                  "N","O","P","Q","R","S","T","U","V","W","X","Y","Z">>

\* str.upper(): lower-case ASCII letters are raised, everything else is kept.
upper(name) ==
  [i \in 1..Len(name) |->
     IF \E j \in 1..26 : LowerLetters[j] = name[i]
       THEN UpperLetters[CHOOSE j \in 1..26 : LowerLetters[j] = name[i]]
       ELSE name[i]]

\* Python's `k in name` on strings: k occurs as a contiguous substring.
contains(k, name) ==
  \E i \in 0..(Len(name) - Len(k)) : SubSeq(name, i + 1, i + Len(k)) = k

\* any(k in name for k in keys)
any_in(keys, name) == \E k \in keys : contains(k, name)

\* The `legacy` exact-match table of _map_offense_to_core, as pairs.
legacy_offense ==
  { <<<<"I","N","S","I","D","E","_","R","U","N">>, "INSIDE_RUN">>,
    <<<<"O","U","T","S","I","D","E","_","R","U","N">>, "OUTSIDE_RUN">>,
    <<<<"D","R","A","W">>, "INSIDE_RUN">>,
    <<<<"Q","B","_","S","N","E","A","K">>, "SPIKE">>,
    <<<<"Q","B","_","K","E","E","P","E","R">>, "OPTION_RUN">>,
    <<<<"S","H","O","R","T","_","P","A","S","S">>, "SHORT_PASS">>,
    <<<<"I","N","T","E","R","M","E","D","I","A","T","E","_","P","A","S","S">>, "INTERMEDIATE_PASS">>,
    <<<<"D","E","E","P","_","S","H","O","T">>, "DEEP_PASS">>,
    <<<<"S","C","R","E","E","N","_","P","A","S","S">>, "SCREEN_PASS">>,
    <<<<"P","L","A","Y","_","A","C","T","I","O","N">>, "PLAY_ACTION">>,
    <<<<"S","P","I","K","E">>, "SPIKE">>,
    <<<<"K","N","E","E","L">>, "KNEEL">> }

\* Mutant of in_legacy: the exact-match table is never consulted.
in_legacy_skipped(name) == FALSE

\* `if name in legacy`
in_legacy(name) == \E e \in legacy_offense : e[1] = name

\* _map_offense_to_core
map_offense_to_core(play_type) ==
  LET name == upper(play_type) IN
  IF in_legacy(name)
    THEN (CHOOSE e \in legacy_offense : e[1] = name)[2]
  ELSE IF name = <<"S","P","I","K","E">> THEN "SPIKE"
  ELSE IF name = <<"K","N","E","E","L">> THEN "KNEEL"
  ELSE IF contains(<<"S","C","R","E","E","N">>, name) THEN "SCREEN_PASS"
  ELSE IF contains(<<"P","L","A","Y","_","A","C","T","I","O","N">>, name)
          \/ name \in {<<"B","O","O","T","L","E","G">>, <<"R","O","L","L","_","O","U","T">>}
    THEN "PLAY_ACTION"
  ELSE IF any_in({<<"I","N","S","I","D","E">>, <<"P","O","W","E","R">>, <<"C","O","U","N","T","E","R">>, <<"T","R","A","P">>}
                 \cup {<<"I","S","O">>, <<"D","R","A","W">>, <<"D","E","L","A","Y">>}, name)
    THEN "INSIDE_RUN"
  ELSE IF any_in({<<"O","U","T","S","I","D","E">>, <<"S","W","E","E","P">>, <<"T","O","S","S">>}
                 \cup {<<"J","E","T">>, <<"R","E","V","E","R","S","E">>}, name)
    THEN "OUTSIDE_RUN"
  ELSE IF any_in({<<"O","P","T","I","O","N">>, <<"K","E","E","P","E","R">>}
                 \cup {<<"S","N","E","A","K">>, <<"Q","B","_">>}, name)
    THEN "OPTION_RUN"
  ELSE IF any_in({<<"Q","U","I","C","K">>, <<"H","I","T","C","H">>, <<"S","L","A","N","T">>}
                 \cup {<<"B","U","B","B","L","E">>, <<"S","M","O","K","E">>}, name)
    THEN "QUICK_PASS"
  ELSE IF any_in({<<"M","E","S","H">>, <<"O","U","T">>, <<"C","R","O","S","S">>, <<"S","E","A","M">>}, name)
    THEN "SHORT_PASS"
  ELSE IF any_in({<<"D","I","G">>, <<"C","O","M","E","B","A","C","K">>}
                 \cup {<<"D","E","E","P","_","O","U","T">>, <<"C","R","O","S","S","E","R","S">>}, name)
    THEN "INTERMEDIATE_PASS"
  ELSE IF any_in({<<"G","O">>, <<"P","O","S","T">>, <<"C","O","R","N","E","R">>, <<"F","A","D","E">>, <<"D","E","E","P">>}, name)
    THEN "DEEP_PASS"
  ELSE "SHORT_PASS"

\* The `legacy` table of _map_defense_to_core, as pairs.
legacy_defense ==
  { <<<<"B","A","S","E">>, "BASE">>,
    <<<<"R","U","N","_","F","O","C","U","S">>, "RUN_FOCUS">>,
    <<<<"R","U","N","_","B","L","I","T","Z">>, "RUN_BLITZ">>,
    <<<<"P","A","S","S","_","F","O","C","U","S">>, "PASS_FOCUS">>,
    <<<<"P","A","S","S","_","B","L","I","T","Z">>, "PASS_BLITZ">>,
    <<<<"A","L","L","_","O","U","T","_","B","L","I","T","Z">>, "ALL_OUT_BLITZ">>,
    <<<<"P","R","E","V","E","N","T">>, "PREVENT">>,
    <<<<"C","O","N","T","A","I","N">>, "CONTAIN">>,
    <<<<"Q","B","_","S","P","Y">>, "QB_SPY">>,
    <<<<"G","O","A","L","_","L","I","N","E","_","S","O","L","D","_","O","U","T">>, "RUN_FOCUS">> }

\* Mutant of map_defense_to_core: a name missing from the table has no family.
map_defense_to_core_strict(def_flavor) ==
  LET name == upper(def_flavor) IN
  IF \E e \in legacy_defense : e[1] = name
    THEN (CHOOSE e \in legacy_defense : e[1] = name)[2]
    ELSE "KeyError"

map_defense_to_core(def_flavor) ==
  LET name == upper(def_flavor) IN
  IF \E e \in legacy_defense : e[1] = name
    THEN (CHOOSE e \in legacy_defense : e[1] = name)[2]
    ELSE "BASE"

----------------------------------------------------------------------------
\* Yardage model and clock model.

\* Mutant of contain_adjustment: only the top of the band is contained.
contain_adjustment_max_only(b0) == <<b0[1], min(b0[2], 12)>>

\* CONTAIN: max_y = min(max_y, 12); min_y = max(min_y, -3)
contain_adjustment(b0) == <<max(b0[1], -3), min(b0[2], 12)>>

\* Mutant of clamp_band: the floor of -15 is not applied.
clamp_band_ceiling_only(adj) == <<adj[1], min(adj[2], 50)>>

\* "Clamp bands": min_y = max(min_y, -15); max_y = min(max_y, 50)
clamp_band(adj) == <<max(adj[1], -15), min(adj[2], 50)>>

yardage_band(offense_family, defense_family) ==
  LET base == [ INSIDE_RUN        |-> <<-2, 6>>,
                OUTSIDE_RUN       |-> <<-3, 8>>,
                OPTION_RUN        |-> <<-3, 10>>,
                QUICK_PASS        |-> <<-4, 10>>,
                SHORT_PASS        |-> <<-5, 12>>,
                INTERMEDIATE_PASS |-> <<-8, 18>>,
                DEEP_PASS         |-> <<-10, 35>>,
                SCREEN_PASS       |-> <<-6, 18>>,
                PLAY_ACTION       |-> <<-5, 25>>,
                SPIKE             |-> <<0, 0>>,
                KNEEL             |-> <<-1, -1>> ]
      runs   == {"INSIDE_RUN", "OUTSIDE_RUN", "OPTION_RUN"}
      passes == {"QUICK_PASS", "SHORT_PASS", "INTERMEDIATE_PASS",
                 "DEEP_PASS", "SCREEN_PASS", "PLAY_ACTION"}
      under  == {"QUICK_PASS", "SHORT_PASS", "SCREEN_PASS", "INSIDE_RUN"}
      b0     == base[offense_family]
      adj    ==
        IF defense_family = "RUN_FOCUS" THEN
          IF offense_family \in runs THEN <<b0[1] - 2, b0[2] - 1>>
                                     ELSE <<b0[1], b0[2] + 3>>
        ELSE IF defense_family = "RUN_BLITZ" THEN
          IF offense_family \in runs THEN <<b0[1] - 3, b0[2] + 1>>
                                     ELSE <<b0[1] - 6, b0[2]>>
        ELSE IF defense_family = "PASS_FOCUS" THEN
          IF offense_family \in passes THEN <<b0[1] - 3, b0[2] - 3>>
                                       ELSE <<b0[1], b0[2] + 4>>
        ELSE IF defense_family = "PASS_BLITZ" THEN
          IF offense_family \in passes THEN <<b0[1] - 8, b0[2] + 8>>
                                       ELSE <<b0[1] - 2, b0[2]>>
        ELSE IF defense_family = "ALL_OUT_BLITZ" THEN
          <<b0[1] - 10, b0[2] + 15>>
        ELSE IF defense_family = "PREVENT" THEN
          IF offense_family \in under THEN <<b0[1], b0[2] + 4>>
                                      ELSE <<b0[1] - 3, b0[2] - 5>>
        ELSE IF defense_family = "CONTAIN" THEN
          contain_adjustment(b0)
        ELSE b0
      min_y  == clamp_band(adj)[1]
      max_y  == clamp_band(adj)[2]
  IN  IF min_y > max_y THEN <<max_y, min_y>> ELSE <<min_y, max_y>>

\* Mutant of clock_runoff_seconds: a play for no gain runs 25 seconds.
clock_runoff_seconds_strict(offense_family, yards_gained) ==
  IF offense_family \in {"SPIKE", "KNEEL"} THEN 5
  ELSE IF yards_gained < 0 THEN 15
  ELSE 25

clock_runoff_seconds(offense_family, yards_gained) ==
  IF offense_family \in {"SPIKE", "KNEEL"} THEN 5
  ELSE IF yards_gained <= 0 THEN 15
  ELSE 25

----------------------------------------------------------------------------
\* Game state machine (game_state.py).

\* ScoreByQuarter.initial
ScoreByQuarter_initial == [home |-> <<0, 0, 0, 0>>, away |-> <<0, 0, 0, 0>>]

\* list growth of ScoreByQuarter.add_points: pad with zeros up to index qi.
pad(list, quarter_index) ==
  IF quarter_index >= Len(list)
    THEN list \o [i \in 1..(quarter_index + 1 - Len(list)) |-> 0]
    ELSE list

\* Mutant of add_points: only the list of the scoring side is grown.
add_points_grow_one(scores, side, quarter_index, points) ==
  LET at(list) == IF quarter_index >= 0 THEN quarter_index + 1
                                        ELSE Len(list) + quarter_index + 1
      home == pad(scores.home, quarter_index)
      away == pad(scores.away, quarter_index)
  IN  IF side = "HOME"
        THEN [home |-> [home EXCEPT ![at(home)] = @ + points], away |-> scores.away]
        ELSE [home |-> scores.home, away |-> [away EXCEPT ![at(away)] = @ + points]]

\* ScoreByQuarter.add_points on the object `scores`; the value after the call.
\* (Python indexes from 0, and a negative index counts from the end.)
add_points(scores, side, quarter_index, points) ==
  LET home == pad(scores.home, quarter_index)
      away == pad(scores.away, quarter_index)
      at(list) == IF quarter_index >= 0 THEN quarter_index + 1
                                        ELSE Len(list) + quarter_index + 1
  IN  IF side = "HOME"
        THEN [home |-> [home EXCEPT ![at(home)] = @ + points], away |-> away]
        ELSE [home |-> home, away |-> [away EXCEPT ![at(away)] = @ + points]]

\* ScoreByQuarter.home_total / away_total
RECURSIVE sum(_)
sum(list) == IF list = <<>> THEN 0 ELSE Head(list) + sum(Tail(list))

\* Mutant of home_total: only the four regulation quarters are added up.
home_total_regulation(scores) == sum(SubSeq(scores.home, 1, min(4, Len(scores.home))))

\* ScoreByQuarter.home_total
home_total(scores) == sum(scores.home)

\* ScoreByQuarter.away_total
away_total(scores) == sum(scores.away)

\* Mutant of GameState.initial: the ball is spotted at yard line 25 whichever
\* side receives.
GameState_initial_fixed_spot(home_receives) ==
  LET receiving_side == IF home_receives THEN "HOME" ELSE "AWAY"
  IN  [ home_name |-> "Home", home_abbr |-> "HOM",
        away_name |-> "Away", away_abbr |-> "AWY",
        quarter |-> 1,
        time_remaining |-> 15 * 60,
        possession |-> receiving_side,
        down |-> 1,
        distance |-> 10,
        yard_line |-> 25,
        hash_mark |-> "MIDDLE",
        home_timeouts |-> 3,
        away_timeouts |-> 3,
        scores |-> ScoreByQuarter_initial,
        current_drive_play_count |-> 0,
        current_drive_yards |-> 0,
        current_drive_start_yard_line |-> 25,
        clock_running |-> FALSE,
        game_over |-> FALSE ]

\* GameState.initial
GameState_initial(home_receives) ==
  LET receiving_side == IF home_receives THEN "HOME" ELSE "AWAY"
      yard_line      == IF receiving_side = "HOME" THEN 25 ELSE 75
  IN  [ home_name |-> "Home", home_abbr |-> "HOM",
        away_name |-> "Away", away_abbr |-> "AWY",
        quarter |-> 1,
        time_remaining |-> 15 * 60,
        possession |-> receiving_side,
        down |-> 1,
        distance |-> 10,
        yard_line |-> yard_line,
        hash_mark |-> "MIDDLE",
        home_timeouts |-> 3,
        away_timeouts |-> 3,
        scores |-> ScoreByQuarter_initial,
        current_drive_play_count |-> 0,
        current_drive_yards |-> 0,
        current_drive_start_yard_line |-> yard_line,
        clock_running |-> FALSE,
        game_over |-> FALSE ]

\* GameState.defense_side
defense_side(s) == IF s.possession = "AWAY" THEN "HOME" ELSE "AWAY"

\* GameState.yard_line_from_offense_perspective
yard_line_from_offense_perspective(s) ==
  IF s.possession = "HOME" THEN s.yard_line ELSE 100 - s.yard_line

\* GameState.home_score_total
home_score_total(s) == home_total(s.scores)

\* GameState.away_score_total
away_score_total(s) == away_total(s.scores)

\* Mutant of with_added_points: the quarter itself is used as the index.
with_added_points_next_quarter(s, side, points) ==
  [s EXCEPT !.scores = add_points([home |-> s.scores.home, away |-> s.scores.away],
                                  side, s.quarter, points)]

\* GameState.with_added_points: the lists are copied, then add_points.
with_added_points(s, side, points) ==
  LET new_scores == add_points([home |-> s.scores.home, away |-> s.scores.away],
                               side, s.quarter - 1, points)
  IN  [s EXCEPT !.scores = new_scores]

\* Mutant of clamp_to_field: the lower clamp is forgotten.
clamp_to_field_upper_only(y) == min(100, y)

\* "Clamp to field": new_yard_line = max(0, min(100, new_yard_line))
clamp_to_field(y) == max(0, min(100, y))

\* Mutant of goal_line_return: the play also starts a new series.
goal_line_return_new_series(s, new_yard_line) ==
  [s EXCEPT !.yard_line = new_yard_line, !.down = 1, !.distance = 10]

\* next_down_after_play, goal-line return: only yard_line is updated.
goal_line_return(s, new_yard_line) ==
  [s EXCEPT !.yard_line = new_yard_line]

\* next_down_after_play, change of possession (the turnover branch and the
\* turnover on downs): the other side gets 1st & 10 from the spot.
change_of_possession(s, new_yard_line) ==
  [s EXCEPT !.possession = defense_side(s),
            !.down = 1,
            !.distance = 10,
            !.yard_line = new_yard_line,
            !.current_drive_play_count = 0,
            !.current_drive_yards = 0,
            !.current_drive_start_yard_line = new_yard_line]

\* Mutant of first_down_reset: the first down restarts the drive's play count.
first_down_reset_recount(s, yards_gained, new_yard_line) ==
  [s EXCEPT !.down = 1,
            !.distance = 10,
            !.yard_line = new_yard_line,
            !.current_drive_play_count = 1,
            !.current_drive_yards = s.current_drive_yards + yards_gained]

\* next_down_after_play, first down gained: 1st & 10 from the new spot.
first_down_reset(s, yards_gained, new_yard_line) ==
  [s EXCEPT !.down = 1,
            !.distance = 10,
            !.yard_line = new_yard_line,
            !.current_drive_play_count = s.current_drive_play_count + 1,
            !.current_drive_yards = s.current_drive_yards + yards_gained]

\* Mutant of same_drive_advance: the gain is added to the distance to go.
same_drive_advance_sign_slip(s, yards_gained, new_yard_line) ==
  [s EXCEPT !.down = s.down + 1,
            !.distance = max(1, s.distance + yards_gained),
            !.yard_line = new_yard_line,
            !.current_drive_play_count = s.current_drive_play_count + 1,
            !.current_drive_yards = s.current_drive_yards + yards_gained]

\* next_down_after_play, same drive: the down and the distance advance.
same_drive_advance(s, yards_gained, new_yard_line) ==
  [s EXCEPT !.down = s.down + 1,
            !.distance = max(1, s.distance - yards_gained),
            !.yard_line = new_yard_line,
            !.current_drive_play_count = s.current_drive_play_count + 1,
            !.current_drive_yards = s.current_drive_yards + yards_gained]

\* Mutant of downs_exhausted: a fifth down is played.
downs_exhausted_after_five(next_down) == next_down > 5

\* "No first down, check turnover on downs": if next_down > 4
downs_exhausted(next_down) == next_down > 4

\* Mutant of next_down_after_play: the first down is looked at before the
\* turnover.
next_down_after_play_first_down_first(s, yards_gained, first_down, touchdown, turnover) ==
  LET moved         == s.yard_line +
                         (IF s.possession = "HOME" THEN yards_gained ELSE -yards_gained)
      new_yard_line == clamp_to_field(moved)
      next_down     == s.down + 1
  IN  IF touchdown \/ new_yard_line \in {0, 100} THEN
        goal_line_return(s, new_yard_line)
      ELSE IF first_down THEN
        first_down_reset(s, yards_gained, new_yard_line)
      ELSE IF turnover THEN
        change_of_possession(s, new_yard_line)
      ELSE IF downs_exhausted(next_down) THEN
        change_of_possession(s, new_yard_line)
      ELSE
        same_drive_advance(s, yards_gained, new_yard_line)

\* GameState.next_down_after_play
next_down_after_play(s, yards_gained, first_down_gained, touchdown, turnover) ==
  LET moved         == s.yard_line +
                         (IF s.possession = "HOME" THEN yards_gained ELSE -yards_gained)
      new_yard_line == clamp_to_field(moved)
      next_down     == s.down + 1
  IN  IF touchdown \/ new_yard_line \in {0, 100} THEN
        goal_line_return(s, new_yard_line)
      ELSE IF turnover THEN
        change_of_possession(s, new_yard_line)
      ELSE IF first_down_gained THEN
        first_down_reset(s, yards_gained, new_yard_line)
      ELSE IF downs_exhausted(next_down) THEN
        change_of_possession(s, new_yard_line)
      ELSE
        same_drive_advance(s, yards_gained, new_yard_line)

----------------------------------------------------------------------------
\* Play resolver (engine.py).

\* Identifiers other than the members of OffensePlayType / DefensePlayFlavor
\* that the mapping layer accepts (it keys on .name or str()): names of the
\* earlier simplified enums, plain strings in lower or mixed case, names no
\* rule knows, and the empty string.
OtherOffenseIdentifiers ==
  { <<"D","E","E","P","_","S","H","O","T">>,
    <<"I","N","T","E","R","M","E","D","I","A","T","E","_","P","A","S","S">>,
    <<"O","U","T","S","I","D","E","_","R","U","N">>,
    <<"K","n","e","e","l">>,
    <<"i","n","s","i","d","e","_","z","o","n","e">>,
    <<"F","L","E","A","_","F","L","I","C","K","E","R">>,
    <<"H","A","I","L","_","M","A","R","Y">>,
    <<"p","u","n","t">>,
    <<>> }

OtherDefenseIdentifiers ==
  { <<"p","r","e","v","e","n","t">>,
    <<"Q","b","_","S","p","y">>,
    <<"Z","O","N","E","_","B","L","I","T","Z">>,
    <<"C","O","V","E","R","_","2">>,
    <<"N","I","C","K","E","L">>,
    <<>> }

\* The identifiers handed to the mapping layer.
OffenseIdentifiers == OffensePlayTypes \cup OtherOffenseIdentifiers

DefenseIdentifiers == DefensePlayFlavors \cup OtherDefenseIdentifiers

\* _map_offense_to_core / _map_defense_to_core tabulated over the identifiers.
off_family_of == [pt \in OffenseIdentifiers |-> map_offense_to_core(pt)]

def_family_of == [fl \in DefenseIdentifiers |-> map_defense_to_core(fl)]

\* Mutant of offense_core: a call declared as a deep pass is resolved as one.
offense_core_by_depth(offense) ==
  IF offense.pass_depth = "DEEP" THEN "DEEP_PASS" ELSE off_family_of[offense.play_type]

\* off_family = _map_offense_to_core(offense.play_type)
offense_core(offense) == off_family_of[offense.play_type]

\* def_family = _map_defense_to_core(defense.flavor)
defense_core(defense) == def_family_of[defense.flavor]

\* Mutant of randint_calls: the value is drawn before the special plays are
\* told apart.
randint_calls_unconditional(special) == 1

\* The number of rng.randint calls of one resolve_play: none in the
\* SPIKE/KNEEL branch, one in the else branch.
randint_calls(special) == IF special THEN 0 ELSE 1

\* Mutant of samples_rng: only KNEEL skips the random source.
samples_rng_kneel_only(play_call) ==
  off_family_of[play_call.offense.play_type] # "KNEEL"

\* Whether resolve_play samples the random source for this play call.
samples_rng(play_call) ==
  offense_core(play_call.offense) \notin {"SPIKE", "KNEEL"}

\* Mutant of rng_randint: the upper end is excluded.
rng_randint_half_open(a, b) == a..(b - 1)

\* random.Random.randint(a, b): the values it can return, a <= N <= b.
rng_randint(a, b) == a..b

\* The (min_y, max_y) resolve_play hands to rng.randint.
draw_band(play_call) ==
  yardage_band(offense_core(play_call.offense),
               defense_core(play_call.defense))

\* Mutant of special_yards: the yards of SPIKE and KNEEL are swapped.
special_yards_swapped(off_family) == IF off_family = "SPIKE" THEN -1 ELSE 0

\* "Special plays / yardage": the fixed yards of SPIKE and KNEEL.
special_yards(off_family) == IF off_family = "SPIKE" THEN 0 ELSE -1

\* Mutant of turnover_flag: every play is flagged a turnover.
turnover_flag_set == TRUE

\* turnover = False  (no turnovers yet)
turnover_flag == FALSE

\* Mutant of first_down_gained: a gain of exactly the distance is short.
first_down_gained_strict(touchdown, yards, distance) ==
  (~touchdown) /\ (yards > distance)

\* first_down = (not touchdown) and (yards >= state.distance)
first_down_gained(touchdown, yards, distance) ==
  (~touchdown) /\ (yards >= distance)

\* Mutant of touchdown_score: the extra point is credited with the touchdown.
touchdown_score_with_extra_point(s, offense_side) ==
  with_added_points(s, offense_side, 7)

\* "Scoring": scored_state = state_after_downs.with_added_points(offense_side, 6)
touchdown_score(s, offense_side) == with_added_points(s, offense_side, 6)

\* Mutant of touchdown_and_kickoff: the six points are credited and the
\* kickoff reset is left out.
touchdown_without_kickoff(s, offense_side, receiving_side) ==
  with_added_points(s, offense_side, 6)

\* "Scoring + kickoff reset after TD"
touchdown_and_kickoff(s, offense_side, receiving_side) ==
  LET kickoff_spot == IF receiving_side = "HOME" THEN 25 ELSE 75 IN
  [touchdown_score(s, offense_side) EXCEPT
     !.possession = receiving_side,
     !.down = 1,
     !.distance = 10,
     !.yard_line = kickoff_spot,
     !.current_drive_play_count = 0,
     !.current_drive_yards = 0,
     !.current_drive_start_yard_line = kickoff_spot,
     !.clock_running = FALSE]

\* Mutant of run_clock: the floor at 0 is forgotten.
run_clock_unfloored(time_remaining, time_runoff) == time_remaining - time_runoff

\* "Clock": new_time = max(0, scored_state.time_remaining - time_runoff)
run_clock(time_remaining, time_runoff) == max(0, time_remaining - time_runoff)

\* Mutant of after_clock: a play that leaves time on the clock starts it.
after_clock_running(scored_state, new_time) ==
  [scored_state EXCEPT !.time_remaining = new_time,
                       !.clock_running = (new_time > 0)]

\* Mutant of after_clock: the game ends when the clock reaches 0.
after_clock_ends_game(scored_state, new_time) ==
  [scored_state EXCEPT !.time_remaining = new_time,
                       !.game_over = (scored_state.game_over \/ new_time = 0)]

\* "Clock": final_state = scored_state.copy(time_remaining=new_time)
after_clock(scored_state, new_time) ==
  [scored_state EXCEPT !.time_remaining = new_time]

\* Mutant of resolved_snapshot: the spot is given from the offense's side.
resolved_snapshot_offense_view(final_state) ==
  [ new_down |-> final_state.down,
    new_distance |-> final_state.distance,
    new_yard_line |-> yard_line_from_offense_perspective(final_state),
    new_time_remaining |-> final_state.time_remaining ]

\* The new_* fields of ResolvedPlay, copied from final_state.
resolved_snapshot(final_state) ==
  [ new_down |-> final_state.down,
    new_distance |-> final_state.distance,
    new_yard_line |-> final_state.yard_line,
    new_time_remaining |-> final_state.time_remaining ]

\* resolve_play(state, play_call, rng), where `draw` is the value rng.randint
\* returns when it is called.  The result is the pair (final_state, result)
\* together with the number of calls made to the random source.  The
\* description string of ResolvedPlay is not modelled.
resolve_play(s, play_call, draw) ==
  LET offense       == play_call.offense
      defense       == play_call.defense
      mismatch      == s.possession # offense.side
      offense_side  == IF mismatch THEN s.possession ELSE offense.side
      def_side      == IF mismatch
                         THEN (IF offense_side = "AWAY" THEN "HOME" ELSE "AWAY")
                         ELSE defense.side
      off_family    == offense_core(offense)
      def_family    == defense_core(defense)
      special       == ~samples_rng(play_call)
      yards         == IF special THEN special_yards(off_family) ELSE draw
      offense_yard_before == yard_line_from_offense_perspective(s)
      offense_yard_after  == max(0, min(100, offense_yard_before + yards))
      touchdown     == offense_yard_after >= 100
      first_down    == first_down_gained(touchdown, yards, s.distance)
      turnover      == turnover_flag
      state_after_downs == next_down_after_play(s, yards, first_down, touchdown, turnover)
      scored_state  == IF touchdown
                         THEN touchdown_and_kickoff(state_after_downs, offense_side, def_side)
                         ELSE state_after_downs
      time_runoff   == clock_runoff_seconds(off_family, yards)
      new_time      == run_clock(scored_state.time_remaining, time_runoff)
      final_state   == after_clock(scored_state, new_time)
      snapshot      == resolved_snapshot(final_state)
  IN  [ state  |-> final_state,
        result |-> [ offense_side |-> offense_side,
                     defense_side |-> def_side,
                     yards_gained |-> yards,
                     first_down |-> first_down,
                     turnover |-> turnover,
                     touchdown |-> touchdown,
                     new_down |-> snapshot.new_down,
                     new_distance |-> snapshot.new_distance,
                     new_yard_line |-> snapshot.new_yard_line,
                     new_time_remaining |-> snapshot.new_time_remaining ],
        draws  |-> randint_calls(special) ]

----------------------------------------------------------------------------
\* Play calls.  Only side, play_type and flavor are read by resolve_play; the
\* other fields of OffensivePlayCall / DefensivePlayCall are carried along.

PlayCall(off_side, play_type, def_side, flavor) ==
  [ offense |-> [ side |-> off_side, personnel |-> "11", play_type |-> play_type,
                  direction |-> "None", pass_depth |-> "None",
                  primary_target |-> "None", token_id |-> "None" ],
    defense |-> [ side |-> def_side, front |-> "FOUR_THREE", flavor |-> flavor,
                  coverage |-> "COVER_3", token_id |-> "None" ] ]

\* Before the first play there is no call and no result.
NoCall == PlayCall("HOME", OffensePlayType.KNEEL, "AWAY", DefensePlayFlavor.BASE)

NoResult ==
  [ offense_side |-> "HOME", defense_side |-> "AWAY", yards_gained |-> 0,
    first_down |-> FALSE, turnover |-> FALSE, touchdown |-> FALSE,
    new_down |-> 0, new_distance |-> 0, new_yard_line |-> 0,
    new_time_remaining |-> 0 ]

\* `probe` records the last application of one of the engine's functions on
\* its own (mapping, band, state-machine primitives); none in a game.
NoProbe == [op |-> "none"]

\* `heap` holds the GameState, ScoreByQuarter and list objects when the
\* functions are followed object by object; empty in a game.
EmptyHeap == [states |-> <<>>, boards |-> <<>>, lists |-> <<>>]

----------------------------------------------------------------------------
\* Bounds and input sets.

\* Plays resolved in a row from the kickoff.
MaxPlays == 5

\* Play types and flavors called in a game from the kickoff.
GameCalls ==
  { <<OffensePlayType.INSIDE_ZONE, DefensePlayFlavor.BASE>>,
    <<OffensePlayType.GO, DefensePlayFlavor.ALL_OUT_BLITZ>>,
    <<OffensePlayType.KNEEL, DefensePlayFlavor.BASE>>,
    <<OffensePlayType.SPIKE, DefensePlayFlavor.PREVENT>> }

\* Sides declared by the offense and the defense selection of a call.
GameSides == {<<"HOME", "AWAY">>, <<"AWAY", "HOME">>}

\* Outcomes of the random source explored in a game from the kickoff: both
\* ends of the band and the sampled values inside it.
GameDraws(band) ==
  {y \in band[1]..band[2] : y \in {band[1], band[2]} \/ y \in {10, 25}}

----------------------------------------------------------------------------
\* The game: GameState.initial, then resolve_play on every play.

Init ==
  /\ \E home_receives \in BOOLEAN : state = GameState_initial(home_receives)
  /\ prev = state
  /\ call = NoCall
  /\ result = NoResult
  /\ draws = 0
  /\ plays = 0
  /\ probe = NoProbe
  /\ heap = EmptyHeap

\* One call of resolve_play on the current state; the returned state
\* replaces it.
Resolve(play_call, draw) ==
  /\ samples_rng(play_call) =>
       draw \in rng_randint(draw_band(play_call)[1], draw_band(play_call)[2])
  /\ \E r \in {resolve_play(state, play_call, draw)} :
       /\ state' = r.state
       /\ result' = r.result
       /\ draws' = r.draws
  /\ prev' = state
  /\ call' = play_call
  /\ plays' = plays + 1

Play(play_call, draw) ==
  /\ Resolve(play_call, draw)
  /\ UNCHANGED <<probe, heap>>

Next ==
  /\ plays < MaxPlays
  /\ \E c \in GameCalls, sides \in GameSides :
       LET pc == PlayCall(sides[1], c[1], sides[2], c[2]) IN
         \E draw \in (IF samples_rng(pc) THEN GameDraws(draw_band(pc)) ELSE {0}) :
           Play(pc, draw)

Spec == Init /\ [][Next]_vars

----------------------------------------------------------------------------
\* One call of resolve_play on any valid GameState: the fields are drawn from
\* their documented ranges (GameState's field comments), the clock, quarter,
\* scoreboard, timeouts, drive summary and flags from a few situations.

Situations ==
  { [ quarter |-> 1, time_remaining |-> 900, clock_running |-> FALSE,
      game_over |-> FALSE, home_timeouts |-> 3, away_timeouts |-> 3,
      scores |-> ScoreByQuarter_initial,
      current_drive_play_count |-> 0, current_drive_yards |-> 0,
      current_drive_start_yard_line |-> 25 ],
    [ quarter |-> 4, time_remaining |-> 20, clock_running |-> TRUE,
      game_over |-> FALSE, home_timeouts |-> 1, away_timeouts |-> 2,
      scores |-> [home |-> <<6, 0, 12, 0>>, away |-> <<0, 6, 0, 6>>],
      current_drive_play_count |-> 3, current_drive_yards |-> 12,
      current_drive_start_yard_line |-> 40 ],
    [ quarter |-> 6, time_remaining |-> 10, clock_running |-> TRUE,
      game_over |-> FALSE, home_timeouts |-> 0, away_timeouts |-> 3,
      scores |-> [home |-> <<6, 0, 0, 6>>, away |-> <<0, 12, 0, 0>>],
      current_drive_play_count |-> 1, current_drive_yards |-> -2,
      current_drive_start_yard_line |-> 60 ],
    [ quarter |-> 2, time_remaining |-> 0, clock_running |-> FALSE,
      game_over |-> TRUE, home_timeouts |-> 2, away_timeouts |-> 0,
      scores |-> [home |-> <<0, 0, 0, 0>>, away |-> <<6, 0, 0, 0>>],
      current_drive_play_count |-> 7, current_drive_yards |-> 44,
      current_drive_start_yard_line |-> 80 ] }

YardLines == {0, 1, 5, 25, 75, 95, 99, 100}

Downs == {1, 3, 4}

Distances == {1, 10}

ValidStates ==
  { [ home_name |-> "Home", home_abbr |-> "HOM",
      away_name |-> "Away", away_abbr |-> "AWY",
      quarter |-> sit.quarter,
      time_remaining |-> sit.time_remaining,
      possession |-> possession,
      down |-> down,
      distance |-> distance,
      yard_line |-> yard_line,
      hash_mark |-> "MIDDLE",
      home_timeouts |-> sit.home_timeouts,
      away_timeouts |-> sit.away_timeouts,
      scores |-> sit.scores,
      current_drive_play_count |-> sit.current_drive_play_count,
      current_drive_yards |-> sit.current_drive_yards,
      current_drive_start_yard_line |-> sit.current_drive_start_yard_line,
      clock_running |-> sit.clock_running,
      game_over |-> sit.game_over ] :
    sit \in Situations, possession \in Side, down \in Downs,
    distance \in Distances, yard_line \in YardLines }

\* Calls resolved on a valid state: the clock plays against every flavor,
\* a run and a deep pass against the flavors with the narrowest and the
\* widest band.
AnyCalls ==
  ({OffensePlayType.KNEEL, OffensePlayType.SPIKE, OffensePlayType.QB_SNEAK}
     \X DefensePlayFlavors)
  \cup { <<OffensePlayType.INSIDE_ZONE, DefensePlayFlavor.BASE>>,
         <<OffensePlayType.GO, DefensePlayFlavor.ALL_OUT_BLITZ>> }

InitAny ==
  /\ state \in ValidStates
  /\ prev = state
  /\ call = NoCall
  /\ result = NoResult
  /\ draws = 0
  /\ plays = 0
  /\ probe = NoProbe
  /\ heap = EmptyHeap

NextAny ==
  /\ plays = 0
  /\ \E c \in AnyCalls, off_side \in Side, def_side \in Side :
       LET pc == PlayCall(off_side, c[1], def_side, c[2]) IN
         \E draw \in (IF samples_rng(pc)
                         THEN draw_band(pc)[1]..draw_band(pc)[2] ELSE {0}) :
           Play(pc, draw)

SpecAny == InitAny /\ [][NextAny]_vars

----------------------------------------------------------------------------
\* One call of resolve_play at the kickoff with each pairing of an
\* OffensePlayType member and a DefensePlayFlavor member, the sides declared
\* as they stand, and every outcome of the random source.

InitCalls == Init

CallOf(s, play_type, flavor) ==
  PlayCall(s.possession, play_type, defense_side(s), flavor)

NextCalls ==
  /\ plays = 0
  /\ \E play_type \in OffensePlayTypes, flavor \in DefensePlayFlavors :
       LET pc == CallOf(state, play_type, flavor) IN
         \E draw \in (IF samples_rng(pc)
                         THEN draw_band(pc)[1]..draw_band(pc)[2] ELSE {0}) :
           Play(pc, draw)

SpecCalls == InitCalls /\ [][NextCalls]_vars

----------------------------------------------------------------------------
\* The explicit tables of play_mapping.py.

\* OFFENSE_MAP (play_mapping.py), with the family names of its own
\* CoreOffenseFamily (SCREEN, QB_KNEEL_SPIKE).
OFFENSE_MAP ==
  [ p \in OffensePlayTypes |->
      CASE p \in {OffensePlayType.INSIDE_ZONE, OffensePlayType.POWER,
                       OffensePlayType.COUNTER, OffensePlayType.TRAP,
                       OffensePlayType.ISO, OffensePlayType.DRAW,
                       OffensePlayType.DELAY} -> "INSIDE_RUN"
        [] p \in {OffensePlayType.QB_SNEAK, OffensePlayType.SPIKE,
                       OffensePlayType.KNEEL} -> "QB_KNEEL_SPIKE"
        [] p \in {OffensePlayType.OUTSIDE_ZONE, OffensePlayType.SWEEP,
                       OffensePlayType.TOSS, OffensePlayType.JET_SWEEP,
                       OffensePlayType.REVERSE} -> "OUTSIDE_RUN"
        [] p \in {OffensePlayType.READ_OPTION, OffensePlayType.SPEED_OPTION,
                       OffensePlayType.QB_KEEPER} -> "OPTION_RUN"
        [] p \in {OffensePlayType.QUICK_SLANT, OffensePlayType.QUICK_OUT,
                       OffensePlayType.QUICK_HITCH} -> "QUICK_PASS"
        [] p \in {OffensePlayType.BUBBLE_SCREEN, OffensePlayType.SMOKE_SCREEN,
                       OffensePlayType.RB_SCREEN, OffensePlayType.TE_SCREEN} -> "SCREEN"
        [] p \in {OffensePlayType.DIG, OffensePlayType.COMEBACK,
                       OffensePlayType.DEEP_OUT, OffensePlayType.CROSSERS,
                       OffensePlayType.SEAM} -> "INTERMEDIATE_PASS"
        [] p \in {OffensePlayType.MESH, OffensePlayType.ROLL_OUT} -> "SHORT_PASS"
        [] p \in {OffensePlayType.GO, OffensePlayType.POST,
                       OffensePlayType.CORNER, OffensePlayType.FADE,
                       OffensePlayType.DEEP_CROSS} -> "DEEP_PASS"
        [] p \in {OffensePlayType.PLAY_ACTION_SHORT,
                       OffensePlayType.PLAY_ACTION_SHOT, OffensePlayType.BOOTLEG} -> "PLAY_ACTION" ]

\* DEFENSE_MAP (play_mapping.py)
DEFENSE_MAP ==
  [ p \in DefensePlayFlavors |->
      CASE p \in {DefensePlayFlavor.BASE} -> "BASE"
        [] p \in {DefensePlayFlavor.RUN_FOCUS,
                       DefensePlayFlavor.GOAL_LINE_SOLD_OUT} -> "RUN_FOCUS"
        [] p \in {DefensePlayFlavor.RUN_BLITZ} -> "RUN_BLITZ"
        [] p \in {DefensePlayFlavor.PASS_FOCUS} -> "PASS_FOCUS"
        [] p \in {DefensePlayFlavor.PASS_BLITZ} -> "PASS_BLITZ"
        [] p \in {DefensePlayFlavor.ALL_OUT_BLITZ} -> "ALL_OUT_BLITZ"
        [] p \in {DefensePlayFlavor.PREVENT} -> "PREVENT"
        [] p \in {DefensePlayFlavor.CONTAIN} -> "CONTAIN"
        [] p \in {DefensePlayFlavor.QB_SPY} -> "QB_SPY" ]

----------------------------------------------------------------------------
\* The mapping layer and the yardage model called on their own: each step is
\* one call of _map_offense_to_core, _map_defense_to_core or _yardage_band,
\* and `probe` records its argument(s) and its return value.

InitFunctions ==
  /\ state = GameState_initial(TRUE)
  /\ prev = state
  /\ call = NoCall
  /\ result = NoResult
  /\ draws = 0
  /\ plays = 0
  /\ probe = NoProbe
  /\ heap = EmptyHeap

MapOffense(play_type) ==
  /\ probe' = [op |-> "map_offense", name |-> play_type,
                family |-> off_family_of[play_type]]
  /\ UNCHANGED <<state, prev, call, result, draws, plays, heap>>

MapDefense(def_flavor) ==
  /\ probe' = [op |-> "map_defense", name |-> def_flavor,
                family |-> def_family_of[def_flavor]]
  /\ UNCHANGED <<state, prev, call, result, draws, plays, heap>>

YardageBand(offense_family, defense_family) ==
  /\ probe' = [op |-> "yardage_band", offense_family |-> offense_family,
                defense_family |-> defense_family,
                band |-> yardage_band(offense_family, defense_family)]
  /\ UNCHANGED <<state, prev, call, result, draws, plays, heap>>

NextFunctions ==
  \/ \E play_type \in OffenseIdentifiers : MapOffense(play_type)
  \/ \E def_flavor \in DefenseIdentifiers : MapDefense(def_flavor)
  \/ \E offense_family \in CoreOffenseFamily, defense_family \in CoreDefenseFamily :
       YardageBand(offense_family, defense_family)

SpecFunctions == InitFunctions /\ [][NextFunctions]_vars

----------------------------------------------------------------------------
\* The same functions followed object by object.  A GameState object holds a
\* reference to a ScoreByQuarter object, which holds references to two list
\* objects; references are positions in heap.states, heap.boards, heap.lists.
\* A call allocates the objects the code constructs and writes in place
\* where the code does.

\* A valid GameState value laid out as objects: two lists, one
\* ScoreByQuarter, one GameState.
heap_of(s) ==
  [ lists  |-> <<s.scores.home, s.scores.away>>,
    boards |-> << [home |-> 1, away |-> 2] >>,
    states |-> << [s EXCEPT !.scores = 1] >> ]

\* The value of the GameState object `ref`, its score lists read out.
value_at(h, ref) ==
  LET board == h.boards[h.states[ref].scores] IN
  [h.states[ref] EXCEPT !.scores = [home |-> h.lists[board.home],
                                    away |-> h.lists[board.away]]]

\* dataclasses.replace / GameState(...): a new GameState object.
new_state(h, fields) ==
  [ heap |-> [h EXCEPT !.states = Append(@, fields)],
    ref  |-> Len(h.states) + 1 ]

\* Mutant of copy_list: the list object itself is handed on.
copy_list_alias(h, list_ref) == [heap |-> h, ref |-> list_ref]

\* list(x): a new list object with the items of x.
copy_list(h, list_ref) ==
  [ heap |-> [h EXCEPT !.lists = Append(@, h.lists[list_ref])],
    ref  |-> Len(h.lists) + 1 ]

\* ScoreByQuarter.add_points on the object `board_ref`: both of its lists
\* are written in place.
heap_add_points(h, board_ref, side, quarter_index, points) ==
  LET board == h.boards[board_ref]
      after == add_points([home |-> h.lists[board.home], away |-> h.lists[board.away]],
                          side, quarter_index, points)
  IN  [h EXCEPT !.lists = [i \in DOMAIN h.lists |->
                             IF i = board.home THEN after.home
                             ELSE IF i = board.away THEN after.away
                             ELSE h.lists[i]]]

\* GameState.with_added_points on the object `ref`.
heap_with_added_points(h, ref, side, points) ==
  LET self       == h.states[ref]
      old_board  == h.boards[self.scores]
      home       == copy_list(h, old_board.home)
      away       == copy_list(home.heap, old_board.away)
      new_scores == Len(away.heap.boards) + 1
      h1         == [away.heap EXCEPT
                       !.boards = Append(@, [home |-> home.ref, away |-> away.ref])]
      h2         == heap_add_points(h1, new_scores, side, self.quarter - 1, points)
  IN  new_state(h2, [self EXCEPT !.scores = new_scores])

\* GameState.next_down_after_play on the object `ref`: every branch returns
\* self.copy(...), a new object sharing the ScoreByQuarter of `ref`.
heap_next_down_after_play(h, ref, yards_gained, first_down, touchdown, turnover) ==
  new_state(h, next_down_after_play(h.states[ref], yards_gained,
                                    first_down, touchdown, turnover))

\* resolve_play, "Scoring + kickoff reset after TD": the copy of the state
\* `added` (the one with_added_points returned) set up for the kickoff.
heap_kickoff(added, receiving_side) ==
  LET kickoff_spot == IF receiving_side = "HOME" THEN 25 ELSE 75 IN
  new_state(added.heap,
            [added.heap.states[added.ref] EXCEPT
               !.possession = receiving_side,
               !.down = 1,
               !.distance = 10,
               !.yard_line = kickoff_spot,
               !.current_drive_play_count = 0,
               !.current_drive_yards = 0,
               !.current_drive_start_yard_line = kickoff_spot,
               !.clock_running = FALSE])

\* resolve_play, scored_state: state_after_downs itself unless a touchdown
\* was scored.
heap_scored_state(state_after_downs, r) ==
  IF r.touchdown
    THEN heap_kickoff(heap_with_added_points(state_after_downs.heap,
                                             state_after_downs.ref, r.offense_side, 6),
                      r.defense_side)
    ELSE state_after_downs

\* resolve_play, "Clock": final_state = scored_state.copy(time_remaining=new_time)
heap_final_state(scored_state, off_family, yards) ==
  new_state(scored_state.heap,
            [scored_state.heap.states[scored_state.ref] EXCEPT
               !.time_remaining = run_clock(@, clock_runoff_seconds(off_family, yards))])

\* resolve_play on the object `ref`, from the next_down_after_play call on;
\* `r` holds the sides, the yards and the flags computed before it.
heap_resolve_from(h, ref, off_family, r) ==
  heap_final_state(
    heap_scored_state(
      heap_next_down_after_play(h, ref, r.yards_gained, r.first_down,
                                r.touchdown, r.turnover),
      r),
    off_family, r.yards_gained)

\* resolve_play on the object `ref`: the sides, yards and flags are those of
\* resolve_play on its value; the objects are built in the code's order.
heap_resolve_play(h, ref, play_call, draw) ==
  heap_resolve_from(h, ref, off_family_of[play_call.offense.play_type],
                    resolve_play(value_at(h, ref), play_call, draw).result)

\* Bound on the number of calls made on the objects of one heap.
MaxCalls == 2

\* The GameState values the first object is built from.
HeapStates ==
  {s \in ValidStates : s.down = 3 /\ s.distance = 10 /\ s.yard_line \in {5, 95}}

\* Arguments of next_down_after_play, one for each of its branches.
DownArguments ==
  { <<5, FALSE, FALSE, FALSE>>, <<12, TRUE, FALSE, FALSE>>,
    <<-2, FALSE, FALSE, TRUE>>, <<40, FALSE, TRUE, FALSE>> }

HeapCalls ==
  { <<OffensePlayType.GO, DefensePlayFlavor.ALL_OUT_BLITZ>>,
    <<OffensePlayType.KNEEL, DefensePlayFlavor.BASE>> }

InitHeap ==
  /\ state = GameState_initial(TRUE)
  /\ prev = state
  /\ call = NoCall
  /\ result = NoResult
  /\ draws = 0
  /\ plays = 0
  /\ probe = NoProbe
  /\ \E s \in HeapStates : heap = heap_of(s)

\* A call on the object `ref`; `probe` keeps the heap as it was before.
Called(op, ref, returned) ==
  /\ heap' = returned.heap
  /\ probe' = [op |-> op, input |-> ref, before |-> heap, output |-> returned.ref]
  /\ plays' = plays + 1
  /\ UNCHANGED <<state, prev, call, result, draws>>

HeapResolvePlay(ref, play_call, draw) ==
  /\ samples_rng(play_call) =>
       draw \in rng_randint(draw_band(play_call)[1], draw_band(play_call)[2])
  /\ Called("resolve_play", ref, heap_resolve_play(heap, ref, play_call, draw))

HeapNextDownAfterPlay(ref, yards_gained, first_down, touchdown, turnover) ==
  Called("next_down_after_play", ref,
         heap_next_down_after_play(heap, ref, yards_gained, first_down,
                                   touchdown, turnover))

HeapWithAddedPoints(ref, side, points) ==
  Called("with_added_points", ref, heap_with_added_points(heap, ref, side, points))

NextHeap ==
  /\ plays < MaxCalls
  /\ \E ref \in DOMAIN heap.states :
       \/ \E c \in HeapCalls :
            LET pc == CallOf(heap.states[ref], c[1], c[2]) IN
              \E draw \in (IF samples_rng(pc) THEN GameDraws(draw_band(pc)) ELSE {0}) :
                HeapResolvePlay(ref, pc, draw)
       \/ \E a \in DownArguments :
            HeapNextDownAfterPlay(ref, a[1], a[2], a[3], a[4])
       \/ \E side \in Side, points \in {3, 6} :
            HeapWithAddedPoints(ref, side, points)

SpecHeap == InitHeap /\ [][NextHeap]_vars

----------------------------------------------------------------------------
\* The scoreboard on its own: from GameState.initial, any sequence of
\* with_added_points calls, the caller moving the state to another quarter
\* with copy(quarter=...) in between.  `probe` keeps the points credited to
\* each side so far, `prev` the state the last call was made on.

\* Bound on the number of with_added_points calls.
MaxAdds == 3

\* Quarters the caller moves to: regulation, first overtime, a later overtime.
Quarters == {1, 2, 5, 7}

Points == {3, 6}

InitScores ==
  /\ \E home_receives \in BOOLEAN : state = GameState_initial(home_receives)
  /\ prev = state
  /\ call = NoCall
  /\ result = NoResult
  /\ draws = 0
  /\ plays = 0
  /\ probe = [op |-> "initial", credited |-> [HOME |-> 0, AWAY |-> 0]]
  /\ heap = EmptyHeap

\* state.copy(quarter=quarter)
CopyQuarter(quarter) ==
  /\ state' = [state EXCEPT !.quarter = quarter]
  /\ prev' = state
  /\ probe' = [op |-> "copy", credited |-> probe.credited]
  /\ UNCHANGED <<call, result, draws, plays, heap>>

\* state.with_added_points(side, points)
WithAddedPoints(side, points) ==
  /\ plays < MaxAdds
  /\ state' = with_added_points(state, side, points)
  /\ prev' = state
  /\ probe' = [op |-> "with_added_points", side |-> side, points |-> points,
                credited |-> [probe.credited EXCEPT ![side] = @ + points]]
  /\ plays' = plays + 1
  /\ UNCHANGED <<call, result, draws, heap>>

NextScores ==
  \/ \E quarter \in Quarters : CopyQuarter(quarter)
  \/ \E side \in Side, points \in Points : WithAddedPoints(side, points)

SpecScores == InitScores /\ [][NextScores]_vars

----------------------------------------------------------------------------
\* One call of GameState.next_down_after_play on any valid GameState, with
\* its four arguments chosen freely; `probe` keeps the arguments, `prev` the
\* state the call was made on.

\* yards_gained: losses and gains that stay in the field from the sampled
\* spots, and ones that carry past either goal line.
DownYards == {-100, -15, -1, 0, 1, 4, 10, 50, 100}

InitDowns ==
  /\ state \in ValidStates
  /\ prev = state
  /\ call = NoCall
  /\ result = NoResult
  /\ draws = 0
  /\ plays = 0
  /\ probe = NoProbe
  /\ heap = EmptyHeap

NextDownAfterPlay(yards_gained, first_down, touchdown, turnover) ==
  /\ plays = 0
  /\ state' = next_down_after_play(state, yards_gained, first_down, touchdown, turnover)
  /\ prev' = state
  /\ probe' = [op |-> "next_down_after_play", yards_gained |-> yards_gained,
                first_down_gained |-> first_down, touchdown |-> touchdown,
                turnover |-> turnover]
  /\ plays' = plays + 1
  /\ UNCHANGED <<call, result, draws, heap>>

NextDowns ==
  \E yards_gained \in DownYards, first_down \in BOOLEAN,
     touchdown \in BOOLEAN, turnover \in BOOLEAN :
    NextDownAfterPlay(yards_gained, first_down, touchdown, turnover)

SpecDowns == InitDowns /\ [][NextDowns]_vars

----------------------------------------------------------------------------
\* One call of resolve_play with every field of the play call filled in
\* freely: personnel, direction, pass depth, primary target, the tokens, the
\* front and the coverage, besides the sides, play type and flavor.

Personnel == {"11", "22"}

Directions == {"None", "LEFT"}

PassDepths == {"None", "DEEP"}

Targets == {"None", "WR1"}

Tokens == {"None", "token-7"}

Fronts == {"FOUR_THREE", "GOAL_LINE"}

Coverages == {"COVER_3", "ZERO"}

FullCalls ==
  { [ offense |-> [ side |-> off_side, personnel |-> personnel,
                    play_type |-> c[1], direction |-> direction,
                    pass_depth |-> pass_depth, primary_target |-> primary_target,
                    token_id |-> off_token ],
      defense |-> [ side |-> def_side, front |-> front, flavor |-> c[2],
                    coverage |-> coverage, token_id |-> def_token ] ] :
    c \in GameCalls, off_side \in Side, def_side \in Side,
    personnel \in Personnel, direction \in Directions, pass_depth \in PassDepths,
    primary_target \in Targets, off_token \in Tokens, front \in Fronts,
    coverage \in Coverages, def_token \in Tokens }

InitFull ==
  /\ state \in HeapStates
  /\ prev = state
  /\ call = NoCall
  /\ result = NoResult
  /\ draws = 0
  /\ plays = 0
  /\ probe = NoProbe
  /\ heap = EmptyHeap

NextFull ==
  /\ plays = 0
  /\ \E pc \in FullCalls :
       \E draw \in (IF samples_rng(pc) THEN GameDraws(draw_band(pc)) ELSE {0}) :
         Play(pc, draw)

SpecFull == InitFull /\ [][NextFull]_vars

----------------------------------------------------------------------------
\* The game from the kickoff with a record of the current run of plays: the
\* side that ran the last play and how many plays in a row it has run since
\* its last play flagged first_down or touchdown.

NoSeries == [op |-> "series", side |-> "None", count |-> 0]

series_after(series, offense_side, played) ==
  [ op    |-> "series",
    side  |-> offense_side,
    count |-> IF played.first_down \/ played.touchdown THEN 0
              ELSE IF series.side = offense_side THEN series.count + 1
              ELSE 1 ]

InitSeries ==
  /\ \E home_receives \in BOOLEAN : state = GameState_initial(home_receives)
  /\ prev = state
  /\ call = NoCall
  /\ result = NoResult
  /\ draws = 0
  /\ plays = 0
  /\ probe = NoSeries
  /\ heap = EmptyHeap

PlayInSeries(play_call, draw) ==
  /\ Resolve(play_call, draw)
  /\ probe' = series_after(probe, state.possession, result')
  /\ UNCHANGED heap

NextSeries ==
  /\ plays < MaxPlays
  /\ \E c \in GameCalls, sides \in GameSides :
       LET pc == PlayCall(sides[1], c[1], sides[2], c[2]) IN
         \E draw \in (IF samples_rng(pc) THEN GameDraws(draw_band(pc)) ELSE {0}) :
           PlayInSeries(pc, draw)

SpecSeries == InitSeries /\ [][NextSeries]_vars

----------------------------------------------------------------------------
\* Vocabulary of the properties, stated independently of the operators above.

Played == plays > 0

OtherSide(side) == IF side = "HOME" THEN "AWAY" ELSE "HOME"

\* Field position measured in the direction the offense of `s` travels.
OffenseSpot(s) == IF s.possession = "HOME" THEN s.yard_line ELSE 100 - s.yard_line

Within(lo, x, hi) == IF x < lo THEN lo ELSE IF x > hi THEN hi ELSE x

\* yard_line of `s` moved by `yards` in the offense's direction.
MovedSpot(s, yards) ==
  IF s.possession = "HOME" THEN s.yard_line + yards ELSE s.yard_line - yards

\* Entry i of a per-quarter list, a quarter not yet recorded counting as 0.
Entry(list, i) == IF i <= Len(list) THEN list[i] ELSE 0

Larger(a, b) == IF a >= b THEN a ELSE b

CalledFamily == off_family_of[call.offense.play_type]

\* The runoff of section 4.3 for the last play.
StatedRunoff ==
  IF CalledFamily \in {"SPIKE", "KNEEL"} THEN 5
  ELSE IF result.yards_gained <= 0 THEN 15 ELSE 25

----------------------------------------------------------------------------
\* C1: the yard_line of every state returned by resolve_play lies in [0,100].
C1_YardLineInField == state.yard_line \in 0..100

\* C1 witness: a play that would have carried the ball behind the offense's
\* own goal line, and was spotted on the goal line.
C1_Witness ==
  /\ Played
  /\ OffenseSpot(prev) + result.yards_gained < 0
  /\ OffenseSpot([prev EXCEPT !.yard_line = state.yard_line]) = 0

\* C2: touchdown iff the offense-perspective spot before the play plus
\* yards_gained, clamped to [0,100], is >= 100; first_down iff not touchdown
\* and yards_gained >= the pre-play distance; never both.
C2_Flags ==
  Played =>
    /\ result.touchdown <=>
         (Within(0, OffenseSpot(prev) + result.yards_gained, 100) >= 100)
    /\ result.first_down <=>
         (~result.touchdown /\ result.yards_gained >= prev.distance)
    /\ ~(result.touchdown /\ result.first_down)

\* C2 witness: a gain of exactly the distance to go, short of the goal line.
C2_Witness ==
  /\ Played
  /\ result.yards_gained = prev.distance
  /\ result.first_down
  /\ ~result.touchdown

\* C3: a touchdown adds exactly 6 points to the entry quarter-1 of the side
\* that had possession before the play; no other entry of either side
\* changes (quarters not yet recorded appear as 0).
C3_SixPoints ==
  (Played /\ result.touchdown) =>
    LET q == prev.quarter
        n == Larger(Len(prev.scores.home), q)
        add(side, i) == IF side = prev.possession /\ i = q THEN 6 ELSE 0
    IN  /\ Len(state.scores.home) = n
        /\ Len(state.scores.away) = Larger(Len(prev.scores.away), q)
        /\ \A i \in 1..n :
             state.scores.home[i] = Entry(prev.scores.home, i) + add("HOME", i)
        /\ \A i \in 1..Len(state.scores.away) :
             state.scores.away[i] = Entry(prev.scores.away, i) + add("AWAY", i)

\* C3 witness: a touchdown by AWAY in a second overtime period, with points
\* already on the board.
C3_Witness ==
  /\ Played
  /\ result.touchdown
  /\ prev.possession = "AWAY"
  /\ prev.quarter = 6
  /\ state.scores.away = <<0, 12, 0, 0, 0, 6>>
  /\ state.scores.home = <<6, 0, 0, 6, 0, 0>>

\* C4: after a touchdown, whatever sides the call declares, the side that
\* did not have the ball receives at its own 25, 1st & 10, with a fresh
\* drive and the clock stopped.
C4_KickoffAfterTouchdown ==
  (Played /\ result.touchdown) =>
    LET receiver == OtherSide(prev.possession)
        spot     == IF receiver = "HOME" THEN 25 ELSE 75
    IN  /\ state.possession = receiver
        /\ state.yard_line = spot
        /\ state.down = 1
        /\ state.distance = 10
        /\ state.current_drive_play_count = 0
        /\ state.current_drive_yards = 0
        /\ state.current_drive_start_yard_line = spot
        /\ state.clock_running = FALSE

\* C5: a 4th-down play that gains neither a first down nor a touchdown
\* hands the ball over at the post-play spot: 1st & 10, fresh drive.
C5_TurnoverOnDowns ==
  (Played /\ prev.down = 4 /\ ~result.first_down /\ ~result.touchdown) =>
    LET spot == Within(0, MovedSpot(prev, result.yards_gained), 100) IN
      /\ state.possession = OtherSide(prev.possession)
      /\ state.down = 1
      /\ state.distance = 10
      /\ state.yard_line = spot
      /\ state.current_drive_play_count = 0
      /\ state.current_drive_yards = 0
      /\ state.current_drive_start_yard_line = spot

\* C6: on down d <= 3, no first down, no touchdown, post-play yard_line
\* strictly inside the field: same possession, down d+1, distance
\* max(1, distance - yards), yard_line moved by yards, drive counters
\* accumulated.
C6_NextDown ==
  ( /\ Played
    /\ prev.down <= 3
    /\ ~result.first_down
    /\ ~result.touchdown
    /\ state.yard_line > 0
    /\ state.yard_line < 100 ) =>
    /\ state.possession = prev.possession
    /\ state.down = prev.down + 1
    /\ state.distance = Larger(1, prev.distance - result.yards_gained)
    /\ state.yard_line = MovedSpot(prev, result.yards_gained)
    /\ state.current_drive_play_count = prev.current_drive_play_count + 1
    /\ state.current_drive_yards = prev.current_drive_yards + result.yards_gained

\* C6 witness: HOME 1st & 10 at 75 gaining 6 gives 2nd & 4 at 81.
C6_Witness ==
  /\ Played
  /\ prev.possession = "HOME" /\ prev.down = 1 /\ prev.distance = 10
  /\ prev.yard_line = 75
  /\ CalledFamily = "INSIDE_RUN"
  /\ def_family_of[call.defense.flavor] = "BASE"
  /\ result.yards_gained = 6
  /\ ~result.first_down
  /\ state.possession = "HOME" /\ state.down = 2 /\ state.distance = 4
  /\ state.yard_line = 81

\* C7: a play flagged first_down keeps possession, gives 1st & 10 at the
\* spot moved by exactly yards_gained, counts the play and its yards on the
\* drive and leaves the drive's start unchanged.
C7_FirstDown ==
  (Played /\ result.first_down) =>
    /\ state.possession = prev.possession
    /\ state.down = 1
    /\ state.distance = 10
    /\ state.yard_line = MovedSpot(prev, result.yards_gained)
    /\ state.current_drive_play_count = prev.current_drive_play_count + 1
    /\ state.current_drive_yards = prev.current_drive_yards + result.yards_gained
    /\ state.current_drive_start_yard_line = prev.current_drive_start_yard_line

\* C7 witness: AWAY converts a 3rd down from its own 1 (yard_line 99).
C7_Witness ==
  /\ Played
  /\ result.first_down
  /\ prev.possession = "AWAY" /\ prev.down = 3 /\ prev.yard_line = 99
  /\ prev.current_drive_play_count = 3
  /\ state.down = 1 /\ state.current_drive_play_count = 4

\* C8: time_remaining never increases on a play, is never negative, and
\* stays 0 once it is 0.
C8_ClockMonotone ==
  /\ state.time_remaining >= 0
  /\ Played =>
       /\ state.time_remaining <= prev.time_remaining
       /\ (prev.time_remaining = 0 => state.time_remaining = 0)

\* C8 witness: a play that would run off more time than is left.
C8_Witness ==
  /\ Played
  /\ prev.time_remaining = 10
  /\ result.yards_gained > 0
  /\ state.time_remaining = 0

\* C9: time_remaining after a play is max(0, time before - runoff), runoff
\* being 5 for SPIKE and KNEEL, else 15 for yards <= 0 and 25 for
\* yards > 0; also on touchdown plays.
C9_Runoff ==
  Played =>
    state.time_remaining = Larger(0, prev.time_remaining - StatedRunoff)

\* C9 witness: a touchdown play with 20 seconds left runs the clock to 0.
C9_Witness ==
  /\ Played
  /\ result.touchdown
  /\ CalledFamily \notin {"SPIKE", "KNEEL"}
  /\ prev.time_remaining = 20
  /\ state.time_remaining = 0

\* C10: a KNEEL call resolves to -1 yards, no turnover, no touchdown, no
\* first down and 5 seconds of runoff, with no draw from the random source,
\* against every defense flavor.
C10_Kneel ==
  (Played /\ call.offense.play_type = OffensePlayType.KNEEL) =>
    /\ result.yards_gained = -1
    /\ ~result.turnover
    /\ ~result.touchdown
    /\ ~result.first_down
    /\ state.time_remaining = Larger(0, prev.time_remaining - 5)
    /\ draws = 0

\* C10 witness: a kneel on the opponent's goal line with a yard to go,
\* against an all-out blitz.
C10_Witness ==
  /\ Played
  /\ call.offense.play_type = OffensePlayType.KNEEL
  /\ call.defense.flavor = DefensePlayFlavor.ALL_OUT_BLITZ
  /\ OffenseSpot(prev) = 100
  /\ prev.distance = 1
  /\ result.yards_gained = -1

\* C11: in a game played from the kickoff, a KNEEL call advances the down by
\* the normal rule: on downs 1..3 the offense keeps the ball with the down
\* one higher and the distance one longer; on 4th down possession flips to
\* 1st and 10.
C11_KneelAdvancesDown ==
  (Played /\ call.offense.play_type = OffensePlayType.KNEEL) =>
    IF prev.down <= 3
      THEN /\ state.possession = prev.possession
           /\ state.down = prev.down + 1
           /\ state.distance = prev.distance + 1
      ELSE /\ state.possession = OtherSide(prev.possession)
           /\ state.down = 1
           /\ state.distance = 10

\* C12: a SPIKE call resolves to 0 yards and 5 seconds of runoff, with no
\* draw from the random source, in every state and against every defense
\* flavor.
C12_Spike ==
  (Played /\ call.offense.play_type = OffensePlayType.SPIKE) =>
    /\ result.yards_gained = 0
    /\ state.time_remaining = Larger(0, prev.time_remaining - 5)
    /\ result.new_time_remaining = Larger(0, prev.time_remaining - 5)
    /\ draws = 0

\* C12 witness: a spike against a prevent defense with 20 seconds left in
\* the fourth quarter and the clock running.
C12_Witness ==
  /\ Played
  /\ call.offense.play_type = OffensePlayType.SPIKE
  /\ call.defense.flavor = DefensePlayFlavor.PREVENT
  /\ prev.quarter = 4
  /\ prev.time_remaining = 20
  /\ result.yards_gained = 0
  /\ state.time_remaining = 15

\* C13: for each of the 11 x 9 offense/defense family pairs, SPIKE and KNEEL
\* included, the band (min, max) returned by _yardage_band satisfies
\* -15 <= min <= max <= 50.
C13_BandBounds ==
  probe.op = "yardage_band" =>
    /\ -15 <= probe.band[1]
    /\ probe.band[1] <= probe.band[2]
    /\ probe.band[2] <= 50

\* C13 witness: the deep pass against an all-out blitz, whose adjusted
\* minimum of -20 is brought up to the floor.
C13_Witness ==
  /\ probe.op = "yardage_band"
  /\ probe.offense_family = "DEEP_PASS"
  /\ probe.defense_family = "ALL_OUT_BLITZ"
  /\ probe.band = <<-15, 50>>

\* The base band of each offense family.
BaseBand ==
  [ INSIDE_RUN |-> <<-2, 6>>, OUTSIDE_RUN |-> <<-3, 8>>, OPTION_RUN |-> <<-3, 10>>,
    QUICK_PASS |-> <<-4, 10>>, SHORT_PASS |-> <<-5, 12>>,
    INTERMEDIATE_PASS |-> <<-8, 18>>, DEEP_PASS |-> <<-10, 35>>,
    SCREEN_PASS |-> <<-6, 18>>, PLAY_ACTION |-> <<-5, 25>>,
    SPIKE |-> <<0, 0>>, KNEEL |-> <<-1, -1>> ]

RunFamilies == {"INSIDE_RUN", "OUTSIDE_RUN", "OPTION_RUN"}

PassLikeFamilies == CoreOffenseFamily \ (RunFamilies \cup {"SPIKE", "KNEEL"})

Smaller(a, b) == IF a <= b THEN a ELSE b

\* The additive adjustment (to min, to max) a defense family makes.
Adjustment(offense_family, defense_family) ==
  LET run  == offense_family \in RunFamilies
      pass == offense_family \in PassLikeFamilies
  IN  CASE defense_family = "RUN_FOCUS"  -> IF run THEN <<-2, -1>> ELSE <<0, 3>>
        [] defense_family = "RUN_BLITZ"  -> IF run THEN <<-3, 1>> ELSE <<-6, 0>>
        [] defense_family = "PASS_FOCUS" -> IF pass THEN <<-3, -3>> ELSE <<0, 4>>
        [] defense_family = "PASS_BLITZ" -> IF pass THEN <<-8, 8>> ELSE <<-2, 0>>
        [] defense_family = "ALL_OUT_BLITZ" -> <<-10, 15>>
        [] defense_family = "PREVENT" ->
             IF offense_family \in {"QUICK_PASS", "SHORT_PASS", "SCREEN_PASS", "INSIDE_RUN"}
               THEN <<0, 4>> ELSE <<-3, -5>>
        [] OTHER -> <<0, 0>>

\* The reference band: base, adjustment (CONTAIN pulls into [-3, 12]
\* instead of adding), floor and ceiling, swap.
ReferenceBand(offense_family, defense_family) ==
  LET b  == BaseBand[offense_family]
      d  == Adjustment(offense_family, defense_family)
      a  == IF defense_family = "CONTAIN"
              THEN <<Larger(b[1], -3), Smaller(b[2], 12)>>
              ELSE <<b[1] + d[1], b[2] + d[2]>>
      lo == Larger(a[1], -15)
      hi == Smaller(a[2], 50)
  IN  IF lo > hi THEN <<hi, lo>> ELSE <<lo, hi>>

\* C14: for every offense/defense family pair _yardage_band equals the
\* reference band (base band, defense adjustment, clamp to [-15, 50], swap);
\* INSIDE_RUN vs BASE is (-2, 6) and every CONTAIN band lies within [-3, 12].
C14_BandReference ==
  probe.op = "yardage_band" =>
    /\ probe.band = ReferenceBand(probe.offense_family, probe.defense_family)
    /\ (probe.offense_family = "INSIDE_RUN" /\ probe.defense_family = "BASE")
         => probe.band = <<-2, 6>>
    /\ probe.defense_family = "CONTAIN"
         => (-3 <= probe.band[1] /\ probe.band[2] <= 12)

\* C14 witness: the deep pass against CONTAIN, pulled in at both ends.
C14_Witness ==
  /\ probe.op = "yardage_band"
  /\ probe.offense_family = "DEEP_PASS"
  /\ probe.defense_family = "CONTAIN"
  /\ probe.band = <<-3, 12>>

\* C15: on every resolved play whose offense family is neither SPIKE nor
\* KNEEL, yards_gained lies in the closed interval [min, max] of the band
\* computed for the mapped offense and defense families; and before the
\* play, a play gaining exactly min and a play gaining exactly max are both
\* possible.
C15_YardsInBand ==
  /\ (Played /\ CalledFamily \notin {"SPIKE", "KNEEL"}) =>
       LET band == yardage_band(CalledFamily, def_family_of[call.defense.flavor])
       IN  band[1] <= result.yards_gained /\ result.yards_gained <= band[2]
  /\ ~Played =>
       \A play_type \in OffensePlayTypes, flavor \in DefensePlayFlavors :
         off_family_of[play_type] \notin {"SPIKE", "KNEEL"} =>
           LET pc   == CallOf(state, play_type, flavor)
               band == yardage_band(off_family_of[play_type], def_family_of[flavor])
           IN  \A y \in {band[1], band[2]} :
                 ENABLED (Play(pc, y) /\ result'.yards_gained = y)

\* C15 witness: a POST against a pass blitz gaining the band's maximum of 43.
C15_Witness ==
  /\ Played
  /\ call.offense.play_type = OffensePlayType.POST
  /\ call.defense.flavor = DefensePlayFlavor.PASS_BLITZ
  /\ result.yards_gained = 43
  /\ yardage_band("DEEP_PASS", "PASS_BLITZ") = <<-15, 43>>

\* C16: whatever sides the play call declares, the ResolvedPlay's
\* offense_side is the possession of the state the play was resolved on and
\* its defense_side is the opposite side; after a touchdown the side that
\* receives the kickoff is that defense_side.
C16_Roles ==
  Played =>
    /\ result.offense_side = prev.possession
    /\ result.defense_side = OtherSide(prev.possession)
    /\ result.touchdown => state.possession = result.defense_side

\* Offense names matched as a whole: the exact table, and the names the
\* keyword rules compare with equality.
WholeOffenseNames ==
  { <<"I","N","S","I","D","E","_","R","U","N">>,
    <<"O","U","T","S","I","D","E","_","R","U","N">>, <<"D","R","A","W">>,
    <<"Q","B","_","S","N","E","A","K">>,
    <<"Q","B","_","K","E","E","P","E","R">>,
    <<"S","H","O","R","T","_","P","A","S","S">>,
    <<"I","N","T","E","R","M","E","D","I","A","T","E","_","P","A","S","S">>,
    <<"D","E","E","P","_","S","H","O","T">>,
    <<"S","C","R","E","E","N","_","P","A","S","S">>,
    <<"P","L","A","Y","_","A","C","T","I","O","N">>, <<"S","P","I","K","E">>,
    <<"K","N","E","E","L">>, <<"B","O","O","T","L","E","G">>,
    <<"R","O","L","L","_","O","U","T">> }

\* The keywords the offense rules look for inside a name.
OffenseKeywords ==
  { <<"S","C","R","E","E","N">>,
    <<"P","L","A","Y","_","A","C","T","I","O","N">>,
    <<"I","N","S","I","D","E">>, <<"P","O","W","E","R">>,
    <<"C","O","U","N","T","E","R">>, <<"T","R","A","P">>, <<"I","S","O">>,
    <<"D","R","A","W">>, <<"D","E","L","A","Y">>,
    <<"O","U","T","S","I","D","E">>, <<"S","W","E","E","P">>,
    <<"T","O","S","S">>, <<"J","E","T">>, <<"R","E","V","E","R","S","E">>,
    <<"O","P","T","I","O","N">>, <<"K","E","E","P","E","R">>,
    <<"S","N","E","A","K">>, <<"Q","B","_">>, <<"Q","U","I","C","K">>,
    <<"H","I","T","C","H">>, <<"S","L","A","N","T">>,
    <<"B","U","B","B","L","E">>, <<"S","M","O","K","E">>,
    <<"M","E","S","H">>, <<"O","U","T">>, <<"C","R","O","S","S">>,
    <<"S","E","A","M">>, <<"D","I","G">>,
    <<"C","O","M","E","B","A","C","K">>, <<"D","E","E","P","_","O","U","T">>,
    <<"C","R","O","S","S","E","R","S">>, <<"G","O">>, <<"P","O","S","T">>,
    <<"C","O","R","N","E","R">>, <<"F","A","D","E">>, <<"D","E","E","P">> }

\* The names of the exact defense table.
ExactDefenseNames ==
  { <<"B","A","S","E">>, <<"R","U","N","_","F","O","C","U","S">>,
    <<"R","U","N","_","B","L","I","T","Z">>,
    <<"P","A","S","S","_","F","O","C","U","S">>,
    <<"P","A","S","S","_","B","L","I","T","Z">>,
    <<"A","L","L","_","O","U","T","_","B","L","I","T","Z">>,
    <<"P","R","E","V","E","N","T">>, <<"C","O","N","T","A","I","N">>,
    <<"Q","B","_","S","P","Y">>,
    <<"G","O","A","L","_","L","I","N","E","_","S","O","L","D","_","O","U","T">> }

\* An offense identifier that, case folded, is no whole name and holds no
\* keyword.
UnmatchedOffense(name) ==
  /\ upper(name) \notin WholeOffenseNames
  /\ \A k \in OffenseKeywords : ~contains(k, upper(name))

\* C17: both mappings are total and deterministic: every identifier yields
\* one family of the closed set, the same on every call; an offense
\* identifier matching no exact entry and no keyword rule yields SHORT_PASS,
\* a defense identifier missing from the exact table yields BASE.
C17_MappingTotal ==
  /\ probe.op = "map_offense" =>
       /\ probe.family \in CoreOffenseFamily
       /\ probe.family = map_offense_to_core(probe.name)
       /\ UnmatchedOffense(probe.name) => probe.family = "SHORT_PASS"
  /\ probe.op = "map_defense" =>
       /\ probe.family \in CoreDefenseFamily
       /\ probe.family = map_defense_to_core(probe.name)
       /\ upper(probe.name) \notin ExactDefenseNames => probe.family = "BASE"

\* C17 witness: an offense identifier no rule knows, mapped to SHORT_PASS.
C17_Witness ==
  /\ probe.op = "map_offense"
  /\ probe.name = <<"H","A","I","L","_","M","A","R","Y">>
  /\ UnmatchedOffense(probe.name)
  /\ probe.family = "SHORT_PASS"

\* C18: the offense mapping sends each of the play types DIG, COMEBACK,
\* DEEP_OUT and CROSSERS to the INTERMEDIATE_PASS family.
C18_IntermediateRoutes ==
  (/\ probe.op = "map_offense"
   /\ probe.name \in {OffensePlayType.DIG, OffensePlayType.COMEBACK,
                       OffensePlayType.DEEP_OUT, OffensePlayType.CROSSERS})
    => probe.family = "INTERMEDIATE_PASS"

\* C19: on every resolved play the ResolvedPlay's new_down, new_distance,
\* new_yard_line and new_time_remaining equal the down, distance, yard_line
\* and time_remaining of the state returned with it, a touchdown's kickoff
\* reset included.
C19_Snapshot ==
  Played =>
    /\ result.new_down = state.down
    /\ result.new_distance = state.distance
    /\ result.new_yard_line = state.yard_line
    /\ result.new_time_remaining = state.time_remaining

\* C19 witness: a touchdown by HOME from AWAY's 5 with 20 seconds left; the
\* result shows AWAY's kickoff spot, 1st and 10, and the clock run out.
C19_Witness ==
  /\ Played
  /\ result.touchdown
  /\ prev.possession = "HOME"
  /\ prev.yard_line = 95
  /\ prev.down = 3
  /\ prev.time_remaining = 20
  /\ state.possession = "AWAY"
  /\ result.new_yard_line = 75
  /\ result.new_down = 1
  /\ result.new_distance = 10
  /\ result.new_time_remaining = 0

\* C20: resolve_play, next_down_after_play and with_added_points leave the
\* GameState they are called on unchanged: after the call the object has the
\* field values it had before, its scores field refers to the same
\* ScoreByQuarter with the same two lists, and the lists hold what they held.
C20_InputUnchanged ==
  probe.op \in {"resolve_play", "next_down_after_play", "with_added_points"} =>
    LET before == probe.before
        input  == probe.input
        scores == before.states[input].scores
    IN  /\ heap.states[input] = before.states[input]
        /\ heap.boards[scores] = before.boards[scores]
        /\ value_at(heap, input) = value_at(before, input)

\* C20 witness: a touchdown resolved in a second overtime period on a state
\* whose lists hold four quarters: the returned state has six entries and
\* six more points, the input state still has its four.
C20_Witness ==
  /\ probe.op = "resolve_play"
  /\ value_at(probe.before, probe.input).quarter = 6
  /\ value_at(heap, probe.input).scores.home = <<6, 0, 0, 6>>
  /\ value_at(heap, probe.output).scores.home = <<6, 0, 0, 6, 0, 6>>

\* The sum of the first n entries of a per-quarter list.
RECURSIVE SumUpTo(_, _)
SumUpTo(list, n) == IF n = 0 THEN 0 ELSE SumUpTo(list, n - 1) + list[n]

\* C21: after any sequence of with_added_points calls from the initial
\* scoreboard, in any quarters >= 1 (overtime included), each side's total
\* equals the sum of that side's per-quarter list and equals the sum of the
\* points credited to that side.
C21_Totals ==
  probe.op \in {"initial", "copy", "with_added_points"} =>
    /\ home_score_total(state) = SumUpTo(state.scores.home, Len(state.scores.home))
    /\ away_score_total(state) = SumUpTo(state.scores.away, Len(state.scores.away))
    /\ home_score_total(state) = probe.credited.HOME
    /\ away_score_total(state) = probe.credited.AWAY

\* C21 witness: three scores, HOME's in regulation and in a third overtime,
\* AWAY's in the first overtime.
C21_Witness ==
  /\ probe.op = "with_added_points"
  /\ state.scores.home = <<6, 0, 0, 0, 0, 0, 3>>
  /\ state.scores.away = <<0, 0, 0, 0, 6, 0, 0>>
  /\ home_score_total(state) = 9
  /\ away_score_total(state) = 6

\* C22: with_added_points(side, points) on a state in quarter q >= 1 adds
\* points to entry q-1 (counted from 0) of that side's list only; when the
\* lists are shorter than q both are first padded with zeros to length q, so
\* the two lists have equal length and every entry recorded before keeps
\* its value.
C22_AddAtQuarter ==
  probe.op = "with_added_points" =>
    LET q      == prev.quarter
        added(side, i) == IF side = probe.side /\ i = q THEN probe.points ELSE 0
    IN  /\ Len(state.scores.home) = Len(state.scores.away)
        /\ Len(state.scores.home) = Larger(Len(prev.scores.home), q)
        /\ \A i \in 1..Len(state.scores.home) :
             /\ state.scores.home[i] = Entry(prev.scores.home, i) + added("HOME", i)
             /\ state.scores.away[i] = Entry(prev.scores.away, i) + added("AWAY", i)

\* C22 witness: AWAY scores 3 in quarter 7 on lists that hold five quarters.
C22_Witness ==
  /\ probe.op = "with_added_points"
  /\ probe.side = "AWAY"
  /\ prev.quarter = 7
  /\ prev.scores = [home |-> <<0, 6, 0, 0, 0>>, away |-> <<0, 0, 0, 0, 6>>]
  /\ state.scores = [home |-> <<0, 6, 0, 0, 0, 0, 0>>, away |-> <<0, 0, 0, 0, 6, 0, 3>>]

\* C23: no resolved play is flagged a turnover, and possession changes on a
\* play only if the play is flagged a touchdown or it was a 4th-down play
\* that gained neither a first down nor a touchdown.
C23_NoTurnover ==
  Played =>
    /\ ~result.turnover
    /\ state.possession # prev.possession =>
         \/ result.touchdown
         \/ (prev.down = 4 /\ ~result.first_down /\ ~result.touchdown)

\* C23 witness: a 4th-down play short of the distance hands the ball over,
\* with the turnover flag still false.
C23_Witness ==
  /\ Played
  /\ prev.down = 4
  /\ ~result.first_down
  /\ ~result.touchdown
  /\ ~result.turnover
  /\ state.possession = OtherSide(prev.possession)
  /\ state.down = 1

\* C24: in every state reached from GameState.initial by resolve_play calls,
\* down is in [1, 4] and distance is in [1, 99].
C24_DownAndDistance ==
  /\ state.down \in 1..4
  /\ state.distance \in 1..99

\* C24 witness: 4th and 55 after three losses of 15 in one series.
C24_Witness ==
  /\ Played
  /\ state.down = 4
  /\ state.distance = 55
  /\ prev.down = 3
  /\ prev.distance = 40

\* The spot next_down_after_play arrives at: the yard_line of `prev` moved
\* by the yards of the call in the offense's direction, kept in the field.
NewSpot == Within(0, MovedSpot(prev, probe.yards_gained), 100)

\* C25: next_down_after_play, when touchdown is true or the new yard_line is
\* exactly 0 or 100, returns a state that differs from its input in
\* yard_line only, whatever first_down_gained and turnover are.
C25_GoalLineFrame ==
  (/\ probe.op = "next_down_after_play"
   /\ (probe.touchdown \/ NewSpot \in {0, 100}))
    => state = [prev EXCEPT !.yard_line = NewSpot]

\* C25 witness: a call flagged touchdown, first down and turnover at once on
\* 3rd down in midfield: only the spot moves.
C25_Witness ==
  /\ probe.op = "next_down_after_play"
  /\ probe.touchdown /\ probe.first_down_gained /\ probe.turnover
  /\ prev.possession = "HOME" /\ prev.yard_line = 25 /\ prev.down = 3
  /\ probe.yards_gained = 10
  /\ state.yard_line = 35
  /\ state.down = 3
  /\ state.possession = "HOME"

\* C26: next_down_after_play with turnover true, touchdown false and a new
\* yard_line strictly between 0 and 100 flips possession and returns 1st and
\* 10 at the new spot with the drive play count and yards at 0 and the drive
\* start at the new spot, also when first_down_gained is true.
C26_Turnover ==
  (/\ probe.op = "next_down_after_play"
   /\ probe.turnover
   /\ ~probe.touchdown
   /\ NewSpot \notin {0, 100})
    => /\ state.possession = OtherSide(prev.possession)
       /\ state.down = 1
       /\ state.distance = 10
       /\ state.yard_line = NewSpot
       /\ state.current_drive_play_count = 0
       /\ state.current_drive_yards = 0
       /\ state.current_drive_start_yard_line = NewSpot

\* C26 witness: a turnover on a play that also gained the first down.
C26_Witness ==
  /\ probe.op = "next_down_after_play"
  /\ probe.turnover /\ probe.first_down_gained /\ ~probe.touchdown
  /\ prev.possession = "AWAY" /\ prev.yard_line = 75 /\ prev.down = 3
  /\ probe.yards_gained = 10
  /\ state.possession = "HOME"
  /\ state.yard_line = 65
  /\ state.current_drive_start_yard_line = 65

\* The play call with the same sides, play type and flavor as `pc` and every
\* other field at one fixed value.
Bare(pc) ==
  [ offense |-> [ side |-> pc.offense.side, personnel |-> "11",
                  play_type |-> pc.offense.play_type, direction |-> "None",
                  pass_depth |-> "None", primary_target |-> "None",
                  token_id |-> "None" ],
    defense |-> [ side |-> pc.defense.side, front |-> "FOUR_THREE",
                  flavor |-> pc.defense.flavor, coverage |-> "COVER_3",
                  token_id |-> "None" ] ]

\* C27: a play resolved on a state with a given draw has the same returned
\* state, yards, flags and snapshot fields as the play with the same sides,
\* play type and flavor and every other field replaced (so any two calls
\* that differ only in personnel, direction, pass depth, primary target,
\* token, front or coverage resolve alike).
C27_DisplayFieldsIgnored ==
  Played =>
    LET r == resolve_play(prev, Bare(call), result.yards_gained)
    IN  /\ r.state = state
        /\ r.result = result

\* C27 witness: a touchdown pass called with a deep pass depth, a target, a
\* token, 22 personnel, a goal-line front and zero coverage.
C27_Witness ==
  /\ Played
  /\ result.touchdown
  /\ call.offense.play_type = OffensePlayType.GO
  /\ call.offense.personnel = "22"
  /\ call.offense.direction = "LEFT"
  /\ call.offense.pass_depth = "DEEP"
  /\ call.offense.primary_target = "WR1"
  /\ call.offense.token_id = "token-7"
  /\ call.defense.front = "GOAL_LINE"
  /\ call.defense.coverage = "ZERO"
  /\ call.defense.token_id = "token-7"

\* C28: resolve_play draws once from the random source when the mapped
\* offense family is neither SPIKE nor KNEEL and never when it is; the
\* returned state and result are those computed from the state, the play
\* call and the drawn value (which is the yardage of a sampled play, and
\* which a SPIKE or KNEEL does not depend on).
C28_OneDraw ==
  Played =>
    /\ draws = (IF CalledFamily \in {"SPIKE", "KNEEL"} THEN 0 ELSE 1)
    /\ \A drawn \in (IF draws = 1 THEN {result.yards_gained} ELSE {-10, 0, 60}) :
         LET r == resolve_play(prev, call, drawn)
         IN  /\ r.state = state
             /\ r.result = result

\* C28 witness: a sampled run that lost yards with one draw made.
C28_Witness ==
  /\ Played
  /\ CalledFamily = "INSIDE_RUN"
  /\ draws = 1
  /\ result.yards_gained < 0

\* The opening state as stated: the receiving side at its own 25.
OpeningState(s, home_receives) ==
  /\ s.possession = (IF home_receives THEN "HOME" ELSE "AWAY")
  /\ s.yard_line = (IF home_receives THEN 25 ELSE 75)
  /\ OffenseSpot(s) = 25
  /\ s.down = 1
  /\ s.distance = 10
  /\ s.quarter = 1
  /\ s.time_remaining = 900
  /\ s.home_timeouts = 3
  /\ s.away_timeouts = 3
  /\ s.scores = [home |-> <<0, 0, 0, 0>>, away |-> <<0, 0, 0, 0>>]
  /\ s.current_drive_play_count = 0
  /\ s.current_drive_yards = 0
  /\ s.current_drive_start_yard_line = s.yard_line
  /\ s.clock_running = FALSE
  /\ s.game_over = FALSE

\* C29: GameState.initial gives 1st & 10 for the receiving side at its own
\* 25 (HOME at 25 when home_receives, AWAY at 75 otherwise), quarter 1,
\* 900 seconds, 3 timeouts each, an all-zero four-quarter scoreboard, zero
\* drive counters, drive start at the yard line, clock stopped, game not
\* over; every game starts in such a state.
C29_Initial ==
  /\ \A home_receives \in BOOLEAN :
       OpeningState(GameState_initial(home_receives), home_receives)
  /\ plays = 0 => \E home_receives \in BOOLEAN : OpeningState(state, home_receives)

\* C29 witness: a game that opens with AWAY receiving, at yard line 75.
C29_Witness ==
  /\ plays = 0
  /\ state = GameState_initial(FALSE)
  /\ state.possession = "AWAY"
  /\ state.yard_line = 75

\* C30: in every state reached from GameState.initial by resolve_play calls
\* the offense-perspective yard line is at most 99: the offense never stands
\* on the opponent's goal line, a touchdown being followed by the kickoff
\* reset in the same call.
C30_NeverOnGoalLine == OffenseSpot(state) <= 99

\* C30 witness: after at least one earlier play, a play carries past the
\* opponent's goal line, is a touchdown, and the kickoff reset leaves the
\* receiving side at its own 25.
C30_Witness ==
  /\ plays >= 2
  /\ result.touchdown
  /\ OffenseSpot(prev) + result.yards_gained > 100
  /\ state.possession = OtherSide(prev.possession)
  /\ OffenseSpot(state) = 25

\* The test of next_down_after_play's early return on the last play: the
\* touchdown flag it was handed, or a clamped post-play yard_line of 0 or 100.
EarlyReturnTaken ==
  \/ result.touchdown
  \/ Within(0, MovedSpot(prev, result.yards_gained), 100) \in {0, 100}

\* C31: on every play of a game from the kickoff, next_down_after_play takes
\* its goal-line early return exactly when resolve_play flags the play as a
\* touchdown.
C31_GoalLineChecksAgree ==
  Played => (EarlyReturnTaken <=> result.touchdown)

\* C32: in a game from the kickoff no side runs more than four plays in a
\* row without a first down or a touchdown among them, and after four such
\* plays the other side has the ball.
C32_FourDowns ==
  /\ probe.count <= 4
  /\ probe.count = 4 => state.possession = OtherSide(probe.side)

\* The start of the current drive as the side in possession sees it.
OffenseDriveStart(s) ==
  IF s.possession = "HOME" THEN s.current_drive_start_yard_line
  ELSE 100 - s.current_drive_start_yard_line

\* C33: in every state of a game from the kickoff, current_drive_yards is
\* the offense-perspective yard line minus the offense-perspective start of
\* the current drive.
C33_DriveYards ==
  state.current_drive_yards = OffenseSpot(state) - OffenseDriveStart(state)

\* The total of a side on the scoreboard of `s`.
Total(s, side) ==
  IF side = "HOME" THEN SumUpTo(s.scores.home, Len(s.scores.home))
  ELSE SumUpTo(s.scores.away, Len(s.scores.away))

\* C34: in a game from the kickoff every total is a multiple of 6, no play
\* lowers a side's total, and a play changes a side's total only if it is
\* flagged touchdown and that side had possession before it.
C34_Scores ==
  \A side \in Side :
    /\ Total(state, side) % 6 = 0
    /\ Played =>
         /\ Total(state, side) >= Total(prev, side)
         /\ Total(state, side) # Total(prev, side) =>
              (result.touchdown /\ prev.possession = side)

\* C34 witness: AWAY scores a touchdown while HOME, which scored before,
\* keeps its total.
C34_Witness ==
  /\ Played
  /\ result.touchdown
  /\ prev.possession = "AWAY"
  /\ Total(prev, "AWAY") = 0
  /\ Total(state, "AWAY") = 6
  /\ Total(prev, "HOME") = 6
  /\ Total(state, "HOME") = 6

\* C35: resolve_play never starts the clock: a play that is not a touchdown
\* leaves clock_running as it was and a touchdown sets it to false; since
\* GameState.initial has it false, it is false in every state reached from
\* there by plays.
C35_ClockNeverStarted ==
  /\ \A home_receives \in BOOLEAN : ~GameState_initial(home_receives).clock_running
  /\ Played =>
       /\ result.touchdown => ~state.clock_running
       /\ ~result.touchdown => state.clock_running = prev.clock_running
       /\ ~prev.clock_running => ~state.clock_running

\* C35 witness: a touchdown scored with the clock running stops it.
C35_Witness ==
  /\ Played
  /\ prev.clock_running
  /\ result.touchdown
  /\ ~state.clock_running

\* The state `s` with the clock at 0 and the game marked as over.
Ended(s) == [s EXCEPT !.time_remaining = 0, !.game_over = TRUE]

\* C36: every play leaves quarter, game_over, both timeout counts, hash_mark
\* and the team names and abbreviations as they were, and the same play on
\* the same state with the clock at 0 and the game over resolves alike (same
\* flags, yards, down, distance, spot, possession, scores and drive); so
\* plays never advance the quarter or end the game.
C36_GameFrame ==
  Played =>
    /\ state.quarter = prev.quarter
    /\ state.game_over = prev.game_over
    /\ state.home_timeouts = prev.home_timeouts
    /\ state.away_timeouts = prev.away_timeouts
    /\ state.hash_mark = prev.hash_mark
    /\ state.home_name = prev.home_name /\ state.home_abbr = prev.home_abbr
    /\ state.away_name = prev.away_name /\ state.away_abbr = prev.away_abbr
    /\ LET r == resolve_play(Ended(prev), call, result.yards_gained)
       IN  /\ r.state = Ended(state)
           /\ r.result = [result EXCEPT !.new_time_remaining = 0]
           /\ r.draws = draws

\* C36 witness: a first down gained in a second quarter with no time left and
\* the game marked as over.
C36_Witness ==
  /\ Played
  /\ prev.game_over /\ prev.time_remaining = 0 /\ prev.quarter = 2
  /\ result.first_down
  /\ state.game_over /\ state.quarter = 2 /\ state.down = 1

\* A family of the engine and a family of the explicit table that stand for
\* the same thing.
Corresponds(engine_family, table_family) ==
  \/ engine_family = table_family
  \/ engine_family = "SCREEN_PASS" /\ table_family = "SCREEN"
  \/ engine_family \in {"SPIKE", "KNEEL"} /\ table_family = "QB_KNEEL_SPIKE"

\* C37: for every member of OffensePlayType the family of the keyword
\* mapping corresponds to the family OFFENSE_MAP gives it, and for every
\* member of DefensePlayFlavor the family of the defense mapping is the one
\* DEFENSE_MAP gives it.
C37_TablesAgree ==
  /\ (probe.op = "map_offense" /\ probe.name \in OffensePlayTypes) =>
       Corresponds(probe.family, OFFENSE_MAP[probe.name])
  /\ (probe.op = "map_defense" /\ probe.name \in DefensePlayFlavors) =>
       probe.family = DEFENSE_MAP[probe.name]

\* C38: the yards_gained of every resolved play, a SPIKE (0) or a KNEEL (-1)
\* included, lies within the band that _yardage_band computes for the
\* play's offense and defense families.
C38_FixedYardsInBand ==
  Played =>
    LET band == yardage_band(CalledFamily, def_family_of[call.defense.flavor])
    IN  band[1] <= result.yards_gained /\ result.yards_gained <= band[2]

\* C39: a play call of type QB_SNEAK is resolved in the SPIKE family, which
\* the exact-match table gives it ahead of the keyword rules: 0 yards, no
\* draw from the random source and 5 seconds of runoff, whatever the state
\* and the defense; never as an OPTION_RUN.
C39_QbSneak ==
  (Played /\ call.offense.play_type = OffensePlayType.QB_SNEAK) =>
    /\ offense_core(call.offense) = "SPIKE"
    /\ offense_core(call.offense) # "OPTION_RUN"
    /\ result.yards_gained = 0
    /\ draws = 0
    /\ state.time_remaining = Larger(0, prev.time_remaining - 5)

\* C39 witness: a sneak on 4th and 1 against an all-out blitz gains nothing
\* and hands the ball over on downs.
C39_Witness ==
  /\ Played
  /\ call.offense.play_type = OffensePlayType.QB_SNEAK
  /\ call.defense.flavor = DefensePlayFlavor.ALL_OUT_BLITZ
  /\ prev.down = 4 /\ prev.distance = 1 /\ prev.yard_line = 25
  /\ result.yards_gained = 0
  /\ draws = 0
  /\ state.possession = OtherSide(prev.possession)

====
